---- MODULE Spec2Model ----
(***************************************************************************)
(* Model of the Mistral OCR batch service (MistralOcrService.processBatch  *)
(* and its helpers) and of the loader built on the service                 *)
(* (MistralOcrLoader.processPdfFile).  One invocation of processBatch is   *)
(* followed from its call to the settlement of its promise; every awaited  *)
(* collaborator (file system, remote batch API) answers with any of the    *)
(* outcomes it can produce.  The repository holds two loaders: one that    *)
(* rasterizes the pages of a PDF and sends them to processSingle one by    *)
(* one (LoaderSpec), and one that submits the file to processPdf or        *)
(* processImage directly (DirectSpec); LoadersSpec runs either of them.    *)
(***************************************************************************)
EXTENDS Integers, Sequences, FiniteSets, TLC

\* ---------------------------------------------------------------- bounds
MaxPages == 3
MaxLines == 2
MaxErrors == 2

\* ------------------------------------------------------ program constants
maxAttempts == 30
delayMs == 5000

\* ------------------------------------------------------------ value sets
\* messages of the errors a rejected collaborator call may carry
Causes == {"socket hang up", "HTTP 500"}
FsCauses == {"EACCES: permission denied"}
\* error strings the service reports for a failed job ("" is a legal string);
\* the elements of job.errors are strings, as the data model of the batch job
\* has them
JobErrorStrings == {"", "quota exceeded", "bad input"}
\* values of the `error` field of a result record; Undefined: field absent or null
Undefined == "<undefined>"
RecordErrors == {Undefined, "", "page failed"}
\* values of result.response.pages[0]; NoPage: response or its first page missing
NoPage == [present |-> FALSE, markdown |-> Undefined]
OcrPage(md) == [present |-> TRUE, markdown |-> md]
Pages0 == {NoPage, OcrPage("text A"), OcrPage("text B")}
JobStates == {"Queued", "Running", "Success", "Failed", "Canceled", "Expired"}

SeqsUpTo(S, n) == UNION {[1..k -> S] : k \in 0..n}

\* the page buffers handed to processBatch: page i holds image i
PageSeqs == {[i \in 1..n |-> i] : n \in 0..MaxPages}

\* ------------------------------------------------------------- variables
VARIABLES
  pc,          \* position of the processBatch invocation
  pages,       \* argument `pages`
  tempDir,     \* "none" | "exists" | "removed": the mkdtemp directory
  tempFile,    \* "none" | "exists" | "removed": the batch-*.jsonl file
  fsOps,       \* file-system calls issued so far, in order
  calls,       \* remote API calls issued so far, in order
  attempt,     \* loop variable of waitForJobCompletion
  jobStatus,   \* status of the job at the service ("none" before creation)
  job,         \* answer of the last batch.jobs.get
  slept,       \* milliseconds waited in setTimeout so far
  waitResult,  \* settlement of waitForJobCompletion: none, return(file), throw(message)
  results,     \* records parsed by downloadResults
  inner,       \* completion of the try blocks: none, return(docs), throw(message)
  warnings,    \* console.warn messages
  outcome      \* settlement of the promise returned by processBatch

\* one invocation of MistralOcrLoader.parse
VARIABLES
  lpc,         \* position of the invocation
  lsource,     \* the file path (metadata.source); "" when it is missing
  lAllowed,    \* loader configuration supportedImageTypes
  forceImageConversion,  \* loader configuration
  splitPages,            \* loader configuration
  numpages,    \* pdfData.numpages
  pdf,         \* baseMetadata.pdf: the pdf fields extracted locally
  convI,       \* loop variable i of the rasterization loop
  images,      \* the local array `pages` of rasterized page buffers
  documents,   \* the array `documents` of processPages
  lcalls,      \* collaborator calls issued so far, in order
  ocrIssued,   \* page numbers of the processSingle calls of processPages, in order
  ocrAnswers,  \* answers of the OCR transport received, in order
  rasterError, \* message of the error convertPdfToImage threw, if it threw
  loaded       \* settlement of the promise returned by processPdfFile

\* one construction of the OCR service or of the loader
VARIABLES
  cpc,         \* position of the constructor call: "idle", "new", "done"
  cClass,      \* the class constructed and the file that defines it
  config,      \* the config argument
  clientKey,   \* the apiKey the Mistral client was created with, if it was
  instance,    \* the fields the constructor has set
  thrown       \* message of the error the constructor threw, if it threw

\* two invocations of processBatch on one file system
VARIABLES
  bpc,         \* position of each invocation, at its next awaited call
  bDir,        \* local tempDir of createBatchFile, per invocation
  bPath,       \* local batchFilePath, per invocation
  bRead,       \* whose requests readFile returned, per invocation
  bWarned,     \* number of console.warn calls, per invocation
  fsDirs,      \* the directories under os.tmpdir(), each with its creator
  fsFiles      \* the files in them, each with the invocation that wrote it

\* the requests of one batch and the lines of its output file
VARIABLES
  kpc,         \* "idle", "start", "submitted", "written", "mapped"
  kPages,      \* pages.length
  kRequests,   \* custom_id of each request, in the order of the input file
  kLines,      \* the records of the output file, in the order of its lines
  kDocs        \* completion of results.map: return(docs) or throw(message)

\* one OCR page turned into a Document
VARIABLES
  npc,         \* the code that built the document: "idle", "new", or its name
  rawPage,     \* the page as the OCR service returned it
  nPageNumber, \* the page number of the call (index + 1 in the batch)
  nBase,       \* the pdf entry of the metadata handed in
  nError,      \* the message of the error of a failed page
  nDoc         \* the Document built

loaderVars == <<lpc, lsource, lAllowed, forceImageConversion, splitPages, numpages, pdf, convI,
                images, documents, lcalls, ocrIssued, ocrAnswers, rasterError,
                loaded>>

batchVars == <<pc, pages, tempDir, tempFile, fsOps, calls, attempt, jobStatus,
               job, slept, waitResult, results, inner, warnings, outcome>>

\* one invocation of the loader that submits files to OCR directly
\* (processPdfFile / processImageFile over processPdf / processImage)
VARIABLES
  dpc,         \* position of the invocation
  dFile,       \* the branch parse has taken: "none", "pdf" or "image"
  source,      \* the file path (metadata.source); "" when it is missing
  fileExists,  \* whether the path names a file
  dAllowed,    \* loader configuration supportedImageTypes
  buffer,      \* the first bytes of the file
  imageBuffer, \* local imageBuffer of processImage
  submitted,   \* the document payload handed to ocr.process
  dSplitPages, \* loader configuration splitPages
  mimeType,    \* local mimeType of processImage
  dBasePdf,    \* baseMetadata.pdf of processPdfFile
  metaError,   \* message of the error parsePDF threw, if it threw
  dcalls,      \* collaborator calls issued so far, in order
  dwarnings,   \* console.warn messages
  response,    \* answer of mistralClient.ocr.process
  dloaded      \* settlement of the promise returned by the loader

directVars == <<dpc, dFile, source, fileExists, dAllowed, buffer, imageBuffer,
                submitted, dSplitPages, mimeType, dBasePdf, metaError, dcalls,
                dwarnings, response, dloaded>>

constructVars == <<cpc, cClass, config, clientKey, instance, thrown>>

normalizeVars == <<npc, rawPage, nPageNumber, nBase, nError, nDoc>>

correlateVars == <<kpc, kPages, kRequests, kLines, kDocs>>

concurrentVars == <<bpc, bDir, bPath, bRead, bWarned, fsDirs, fsFiles>>

unitVars == <<constructVars, normalizeVars, correlateVars, concurrentVars>>

vars == <<batchVars, loaderVars, directVars, unitVars>>

\* ------------------------------------------------------------ completions
None == [kind |-> "none", docs |-> <<>>, message |-> ""]
Return(ds) == [kind |-> "return", docs |-> ds, message |-> ""]
Throw(m) == [kind |-> "throw", docs |-> <<>>, message |-> m]

Pending == [kind |-> "pending", docs |-> <<>>, message |-> ""]
Resolved(ds) == [kind |-> "resolved", docs |-> ds, message |-> ""]
Rejected(m) == [kind |-> "rejected", docs |-> <<>>, message |-> m]

NoJob == [status |-> "none", errorsDefined |-> FALSE, errors |-> <<>>,
          outputFile |-> Undefined]

\* ------------------------------------------------------------- documents
\* JavaScript truthiness of a string-or-undefined value
Truthy(v) == v # Undefined /\ v # ""

\* hasImages: the metadata has the per-page entries `images` and `dimensions`
ErrorDocument(pageNumber, err) ==
  [pageContent |-> "", pageNumber |-> pageNumber, error |-> err,
   hasImages |-> FALSE]

PageDocument(pageNumber, page) ==
  [pageContent |-> page.markdown, pageNumber |-> pageNumber, error |-> Undefined,
   hasImages |-> TRUE]

\* the message of the TypeError raised by reading a property of undefined
TypeErrorMessage == "Cannot read properties of undefined"

\* answers of mistralClient.ocr.process: a rejection or a response
OcrResponses ==
  {[ok |-> FALSE, message |-> m, page |-> NoPage] : m \in Causes}
    \cup {[ok |-> TRUE, message |-> "", page |-> p] : p \in Pages0}

\* faulty variant: the catch block numbers the error document with the
\* default page number instead of the requested one
ProcessSingleDefaultPage(resp, pageNumber) ==
  IF ~resp.ok THEN ErrorDocument(1, resp.message)
  ELSE IF ~resp.page.present THEN ErrorDocument(1, TypeErrorMessage)
  ELSE PageDocument(pageNumber, resp.page)

\* processSingle: the try block builds the page document, the catch block
\* turns every error (a rejected call, a response without pages[0]) into an
\* error document
ProcessSingle(resp, pageNumber) ==
  IF ~resp.ok THEN ErrorDocument(pageNumber, resp.message)
  ELSE IF ~resp.page.present THEN ErrorDocument(pageNumber, TypeErrorMessage)
  ELSE PageDocument(pageNumber, resp.page)

\* a line of the downloaded output file, parsed
Records == [error : RecordErrors, page : Pages0]

\* faulty variant: a record with an error aborts the whole mapping
MapResultsAborts(rs) ==
  IF \E i \in 1..Len(rs) : Truthy(rs[i].error) \/ ~rs[i].page.present
  THEN Throw(TypeErrorMessage)
  ELSE Return([i \in 1..Len(rs) |-> PageDocument(i, rs[i].page)])

\* faulty variant: a record without error and without page is passed over and
\* the other records keep their documents
MapResultsSkipsMalformed(rs) ==
  Return([i \in 1..Len(rs) |->
            IF Truthy(rs[i].error) THEN ErrorDocument(i, rs[i].error)
            ELSE IF ~rs[i].page.present THEN ErrorDocument(i, TypeErrorMessage)
            ELSE PageDocument(i, rs[i].page)])

\* results.map(...) of processBatch: the callback throws on a record that has
\* no truthy error and no response.pages[0]
MapResults(rs) ==
  IF \E i \in 1..Len(rs) : ~Truthy(rs[i].error) /\ ~rs[i].page.present
  THEN Throw(TypeErrorMessage)
  ELSE Return([i \in 1..Len(rs) |->
                 IF Truthy(rs[i].error) THEN ErrorDocument(i, rs[i].error)
                 ELSE PageDocument(i, rs[i].page)])

\* Array.prototype.join(", ")
RECURSIVE Join(_)
Join(xs) ==
  IF Len(xs) = 0 THEN ""
  ELSE IF Len(xs) = 1 THEN xs[1]
  ELSE xs[1] \o ", " \o Join(Tail(xs))

\* faulty variant: only the first reported error is kept
FailedMessageFirstOnly(j) ==
  "Batch job failed: " \o (IF j.errorsDefined /\ Len(j.errors) > 0 /\ Truthy(j.errors[1])
                            THEN j.errors[1] ELSE "Unknown error")

\* `Batch job failed: ${job.errors?.join(", ") || "Unknown error"}`
FailedMessage(j) ==
  LET joined == IF j.errorsDefined THEN Join(j.errors) ELSE Undefined
  IN "Batch job failed: " \o (IF Truthy(joined) THEN joined ELSE "Unknown error")

\* the statuses a job in status s may report next (no status ever reverts)
Forward(s) ==
  IF s = "Queued" THEN JobStates
  ELSE IF s = "Running" THEN JobStates \ {"Queued"}
  ELSE {s}

\* the answers batch.jobs.get may give for a job whose status is st
JobAnswers(st) ==
  IF st = "Failed"
  THEN {[status |-> st, errorsDefined |-> FALSE, errors |-> <<>>,
         outputFile |-> Undefined]}
         \cup {[status |-> st, errorsDefined |-> TRUE, errors |-> es,
                outputFile |-> Undefined] : es \in SeqsUpTo(JobErrorStrings, MaxErrors)}
  ELSE IF st = "Success"
  THEN {[status |-> st, errorsDefined |-> FALSE, errors |-> <<>>,
         outputFile |-> f] : f \in {Undefined, "output-file-id"}}
  ELSE {[status |-> st, errorsDefined |-> FALSE, errors |-> <<>>,
         outputFile |-> Undefined]}

\* ------------------------------------------------------------------ Init
BatchInit ==
  /\ pc = "start"
  /\ pages \in PageSeqs
  /\ tempDir = "none"
  /\ tempFile = "none"
  /\ fsOps = <<>>
  /\ calls = <<>>
  /\ attempt = 0
  /\ jobStatus = "none"
  /\ job = NoJob
  /\ slept = 0
  /\ waitResult = None
  /\ results = <<>>
  /\ inner = None
  /\ warnings = <<>>
  /\ outcome = Pending

\* --------------------------------------------------------- processBatch
\* faulty variant: a single page is batched like any other number of pages
RouteBatchesOnePage(n) == IF n = 0 THEN "empty" ELSE "batch"

\* faulty variant: the test for an empty page sequence is missing
RouteWithoutEmptyTest(n) == IF n <= 1 THEN "single" ELSE "batch"

\* the two tests on pages.length at the head of processBatch
Route(n) == IF n = 0 THEN "empty" ELSE IF n = 1 THEN "single" ELSE "batch"

\* if (pages.length === 0) return [];
ReturnEmpty ==
  /\ pc = "start"
  /\ Route(Len(pages)) = "empty"
  /\ outcome' = Resolved(<<>>)
  /\ pc' = "done"
  /\ UNCHANGED <<pages, tempDir, tempFile, fsOps, calls, attempt, jobStatus,
                 job, slept, waitResult, results, inner, warnings>>
  /\ UNCHANGED <<loaderVars, directVars, unitVars>>

\* if (pages.length === 1) return [await this.processSingle(pages[0], metadata)];
DelegateSingle ==
  /\ pc = "start"
  /\ Route(Len(pages)) = "single"
  /\ \E resp \in OcrResponses :
       outcome' = Resolved(<<ProcessSingle(resp, 1)>>)
  /\ calls' = Append(calls, "ocr.process")
  /\ pc' = "done"
  /\ UNCHANGED <<pages, tempDir, tempFile, fsOps, attempt, jobStatus,
                 job, slept, waitResult, results, inner, warnings>>
  /\ UNCHANGED <<loaderVars, directVars, unitVars>>

\* messages a replaced processSingle rejects with
SpyCauses == {"Processing failed", "Job timed out"}

\* the one-page branch when processSingle has been replaced by a function
\* that rejects (vi.spyOn(service, "processSingle").mockRejectedValue(...)):
\* the await sits before the outer try, so the rejection settles the promise
\* of processBatch as it is
DelegateSingleRejects ==
  /\ pc = "start"
  /\ Len(pages) = 1
  /\ \E m \in SpyCauses : outcome' = Rejected(m)
  /\ pc' = "done"
  /\ UNCHANGED <<pages, tempDir, tempFile, fsOps, calls, attempt, jobStatus,
                 job, slept, waitResult, results, inner, warnings>>
  /\ UNCHANGED <<loaderVars, directVars, unitVars>>

\* two or more pages: the requests are built and the outer try is entered
BuildRequests ==
  /\ pc = "start"
  /\ Route(Len(pages)) = "batch"
  /\ pc' = "createBatchFile"
  /\ UNCHANGED <<pages, tempDir, tempFile, fsOps, calls, attempt, jobStatus,
                 job, slept, waitResult, results, inner, warnings, outcome>>
  /\ UNCHANGED <<loaderVars, directVars, unitVars>>

\* createBatchFile: mkdtemp, then writeFile; either may reject
CreateBatchFile ==
  /\ pc = "createBatchFile"
  /\ \/ \E m \in FsCauses :
          /\ fsOps' = Append(fsOps, "mkdtemp")
          /\ inner' = Throw(m)
          /\ pc' = "catch"
          /\ UNCHANGED <<tempDir, tempFile>>
     \/ \E m \in FsCauses :
          /\ fsOps' = fsOps \o <<"mkdtemp", "writeFile">>
          /\ tempDir' = "exists"
          /\ inner' = Throw(m)
          /\ pc' = "catch"
          /\ UNCHANGED tempFile
     \/ /\ fsOps' = fsOps \o <<"mkdtemp", "writeFile">>
        /\ tempDir' = "exists"
        /\ tempFile' = "exists"
        /\ pc' = "uploadBatchFile"
        /\ UNCHANGED inner
  /\ UNCHANGED <<pages, calls, attempt, jobStatus, job, slept, waitResult, results,
                 warnings, outcome>>
  /\ UNCHANGED <<loaderVars, directVars, unitVars>>

\* uploadBatchFile: readFile, then files.upload; either may reject.  The call
\* sits in the outer try, before the try/finally that cleans up.
UploadBatchFile ==
  /\ pc = "uploadBatchFile"
  /\ \/ \E m \in FsCauses :
          /\ fsOps' = Append(fsOps, "readFile")
          /\ inner' = Throw(m)
          /\ pc' = "catch"
          /\ UNCHANGED calls
     \/ \E m \in Causes :
          /\ fsOps' = Append(fsOps, "readFile")
          /\ calls' = Append(calls, "files.upload")
          /\ inner' = Throw(m)
          /\ pc' = "catch"
     \/ /\ fsOps' = Append(fsOps, "readFile")
        /\ calls' = Append(calls, "files.upload")
        /\ pc' = "createBatchJob"
        /\ UNCHANGED inner
  /\ UNCHANGED <<pages, tempDir, tempFile, attempt, jobStatus, job, slept,
                 waitResult, results, warnings, outcome>>
  /\ UNCHANGED <<loaderVars, directVars, unitVars>>

\* faulty variant: the cleanup is not in a finally block, a throw skips it
InnerTryExitSkipsCleanup == "catch"

\* where control goes when a statement of the inner try throws: the finally
\* block, which runs before the outer catch
InnerTryExit == "finally"

\* createBatchJob, first statement of the inner try
CreateBatchJob ==
  /\ pc = "createBatchJob"
  /\ calls' = Append(calls, "batch.jobs.create")
  /\ \/ \E m \in Causes :
          /\ inner' = Throw(m)
          /\ pc' = InnerTryExit
          /\ UNCHANGED <<jobStatus, attempt>>
     \/ /\ jobStatus' = "Queued"
        /\ attempt' = 0
        /\ pc' = "poll"
        /\ UNCHANGED inner
  /\ UNCHANGED <<pages, tempDir, tempFile, fsOps, job, slept, waitResult, results,
                 warnings, outcome>>
  /\ UNCHANGED <<loaderVars, directVars, unitVars>>

\* -------------------------------------------------- waitForJobCompletion
\* faulty variant: off by one in the loop test
LoopConditionOffByOne(a) == a <= maxAttempts

\* for (let attempt = 0; attempt < maxAttempts; attempt += 1)
LoopCondition(a) == a < maxAttempts

\* faulty variant: Success without an output file reference counts as "not
\* ready yet" and the loop goes on
CheckStatusWaitsForFile(j) ==
  IF j.status = "Failed" THEN Throw(FailedMessage(j))
  ELSE IF j.status = "Success" /\ Truthy(j.outputFile)
  THEN Return(<<j.outputFile>>)
  ELSE None

\* faulty variant: Success is taken without testing the output file reference
CheckStatusNoFileTest(j) ==
  IF j.status = "Failed" THEN Throw(FailedMessage(j))
  ELSE IF j.status = "Success" THEN Return(<<j.outputFile>>)
  ELSE None

\* the body of the loop after the status query: what the answer j leads to
CheckStatus(j) ==
  IF j.status = "Failed" THEN Throw(FailedMessage(j))
  ELSE IF j.status = "Success"
  THEN IF Truthy(j.outputFile) THEN Return(<<j.outputFile>>)
       ELSE Throw("Job completed but no output file was found")
  ELSE None

\* one iteration up to the delay: batch.jobs.get and the two status tests
JobsGet ==
  /\ pc = "poll"
  /\ LoopCondition(attempt)
  /\ calls' = Append(calls, "batch.jobs.get")
  /\ \/ \E m \in Causes :
          /\ waitResult' = Throw(m)
          /\ inner' = Throw(m)
          /\ pc' = InnerTryExit
          /\ UNCHANGED <<jobStatus, job>>
     \/ \E st \in Forward(jobStatus) : \E j \in JobAnswers(st) :
          /\ jobStatus' = st
          /\ job' = j
          /\ waitResult' = CheckStatus(j)
          /\ inner' = IF CheckStatus(j).kind = "throw" THEN CheckStatus(j) ELSE inner
          /\ pc' = IF CheckStatus(j).kind = "throw" THEN InnerTryExit
                   ELSE IF CheckStatus(j).kind = "return" THEN "download"
                   ELSE "delay"
  /\ UNCHANGED <<pages, tempDir, tempFile, fsOps, attempt, slept, results,
                 warnings, outcome>>
  /\ UNCHANGED <<loaderVars, directVars, unitVars>>

\* await new Promise((resolve) => setTimeout(resolve, delayMs)); attempt += 1
Delay ==
  /\ pc = "delay"
  /\ slept' = slept + delayMs
  /\ attempt' = attempt + 1
  /\ pc' = "poll"
  /\ UNCHANGED <<pages, tempDir, tempFile, fsOps, calls, jobStatus, job,
                 waitResult, results, inner, warnings, outcome>>
  /\ UNCHANGED <<loaderVars, directVars, unitVars>>

\* the loop ran out: throw new Error("Batch job timed out")
Timeout ==
  /\ pc = "poll"
  /\ ~LoopCondition(attempt)
  /\ waitResult' = Throw("Batch job timed out")
  /\ inner' = Throw("Batch job timed out")
  /\ pc' = InnerTryExit
  /\ UNCHANGED <<pages, tempDir, tempFile, fsOps, calls, attempt, jobStatus,
                 job, slept, results, warnings, outcome>>
  /\ UNCHANGED <<loaderVars, directVars, unitVars>>

\* ------------------------------------------------------- downloadResults
ParseCauses == {"Unexpected token } in JSON"}

\* files.download, the parse of the lines, and the results.map of processBatch
DownloadResults ==
  /\ pc = "download"
  /\ calls' = Append(calls, "files.download")
  /\ \/ \E m \in Causes :
          /\ inner' = Throw(m)
          /\ pc' = InnerTryExit
          /\ UNCHANGED results
     \/ \E m \in ParseCauses :
          /\ inner' = Throw("Failed to parse batch results: " \o m)
          /\ pc' = InnerTryExit
          /\ UNCHANGED results
     \/ \E rs \in SeqsUpTo(Records, MaxLines) :
          /\ results' = rs
          /\ inner' = MapResults(rs)
          /\ pc' = IF MapResults(rs).kind = "throw" THEN InnerTryExit ELSE "finally"
  /\ UNCHANGED <<pages, tempDir, tempFile, fsOps, attempt, jobStatus, job,
                 slept, waitResult, warnings>>
  /\ UNCHANGED outcome
  /\ UNCHANGED <<loaderVars, directVars, unitVars>>

\* ------------------------------------------------------ cleanupTempFiles
\* faulty variant: a cleanup failure is rethrown out of the finally block
AfterCleanupRethrows(completion, failed, m) ==
  IF failed THEN Throw(m) ELSE completion

\* the catch block of cleanupTempFiles: the failure is logged, not rethrown,
\* so the completion of the inner try block stands
AfterCleanup(completion, failed, m) == completion

\* faulty variant: the directory removal is tried although rm failed
AfterFailedRmTriesRmdir == <<"rm", "rmdir">>

\* the file-system calls of cleanupTempFiles when rm rejects: the await throws
\* into the catch block, rmdir is not reached
AfterFailedRm == <<"rm">>

\* finally { await this.cleanupTempFiles(batchFilePath); }
\* rm, then rmdir, both inside one try: a failed rm skips rmdir
CleanupTempFiles ==
  /\ pc = "finally"
  /\ \/ /\ fsOps' = fsOps \o <<"rm", "rmdir">>
        /\ tempFile' = "removed"
        /\ tempDir' = "removed"
        /\ inner' = AfterCleanup(inner, FALSE, "")
        /\ UNCHANGED warnings
     \/ \E m \in FsCauses :
          /\ fsOps' = fsOps \o AfterFailedRm
          /\ warnings' = Append(warnings, "Failed to cleanup temp files: " \o m)
          /\ inner' = AfterCleanup(inner, TRUE, m)
          /\ UNCHANGED <<tempFile, tempDir>>
     \/ \E m \in FsCauses :
          /\ fsOps' = fsOps \o <<"rm", "rmdir">>
          /\ tempFile' = "removed"
          /\ warnings' = Append(warnings, "Failed to cleanup temp files: " \o m)
          /\ inner' = AfterCleanup(inner, TRUE, m)
          /\ UNCHANGED tempDir
  /\ pc' = IF inner'.kind = "return" THEN "return" ELSE "catch"
  /\ UNCHANGED <<pages, calls, attempt, jobStatus, job, slept, waitResult,
                 results, outcome>>
  /\ UNCHANGED <<loaderVars, directVars, unitVars>>

\* the return statement of the inner try completes after the finally block
ReturnDocuments ==
  /\ pc = "return"
  /\ outcome' = Resolved(inner.docs)
  /\ pc' = "done"
  /\ UNCHANGED <<pages, tempDir, tempFile, fsOps, calls, attempt, jobStatus,
                 job, slept, waitResult, results, inner, warnings>>
  /\ UNCHANGED <<loaderVars, directVars, unitVars>>

\* faulty variant: the cause is swallowed
WrapBatchErrorDropsCause(m) == "Batch processing failed"

\* throw new Error(`Batch processing failed: ${err.message}`)
WrapBatchError(m) == "Batch processing failed: " \o m

\* the outer catch block
CatchBatchError ==
  /\ pc = "catch"
  /\ outcome' = Rejected(WrapBatchError(inner.message))
  /\ pc' = "done"
  /\ UNCHANGED <<pages, tempDir, tempFile, fsOps, calls, attempt, jobStatus,
                 job, slept, waitResult, results, inner, warnings>>
  /\ UNCHANGED <<loaderVars, directVars, unitVars>>

\* ------------------------------------------------------ parse: file types
\* values of metadata.source; "" stands for a missing source
Sources ==
  {"", "doc.pdf", "SCAN.PDF", "photo.png", "scan.tiff", "notes.xyz", "README"}

\* path.extname(filePath) on the paths above
ExtName(f) ==
  CASE f = "doc.pdf" -> ".pdf"
    [] f = "SCAN.PDF" -> ".PDF"
    [] f = "photo.png" -> ".png"
    [] f = "scan.tiff" -> ".tiff"
    [] f = "notes.xyz" -> ".xyz"
    [] OTHER -> ""

\* String.prototype.toLowerCase on the extensions above
ToLowerCase(e) == IF e = ".PDF" THEN ".pdf" ELSE e

\* config.supportedImageTypes ?? [".jpg", ..., ".pdf"]
DefaultImageTypes ==
  <<".jpg", ".jpeg", ".png", ".webp", ".tiff", ".bmp", ".gif", ".pdf">>

\* the configured allow-lists: the default and one without ".pdf"
AllowLists == {DefaultImageTypes, <<".png", ".xyz">>}

\* this.supportedImageTypes.includes(ext)
Includes(ts, e) == \E i \in DOMAIN ts : ts[i] = e

IsPdfFile(f) == ToLowerCase(ExtName(f)) = ".pdf"

IsImageFile(f, ts) ==
  Includes(ts, ToLowerCase(ExtName(f))) /\ ToLowerCase(ExtName(f)) # ".pdf"

UnsupportedMessage(ts) == "Unsupported file type. Supported types: " \o Join(ts)

\* faulty variant: the file is dispatched on its extension before the
\* allow-list is consulted
DispatchBeforeAllowList(f, ts) ==
  IF f = "" THEN
    [to |-> "none", settled |-> Rejected("File path is required in metadata.source")]
  ELSE IF IsPdfFile(f) THEN [to |-> "pdf", settled |-> Pending]
  ELSE IF ~Includes(ts, ToLowerCase(ExtName(f))) THEN
    [to |-> "none", settled |-> Rejected(UnsupportedMessage(ts))]
  ELSE [to |-> "image", settled |-> Pending]

\* parse up to the call of processPdfFile or processImageFile: where the file
\* goes, and the rejection when it goes nowhere
Dispatch(f, ts) ==
  IF f = "" THEN
    [to |-> "none", settled |-> Rejected("File path is required in metadata.source")]
  ELSE IF ~Includes(ts, ToLowerCase(ExtName(f))) THEN
    [to |-> "none", settled |-> Rejected(UnsupportedMessage(ts))]
  ELSE IF IsPdfFile(f) THEN [to |-> "pdf", settled |-> Pending]
  ELSE IF IsImageFile(f, ts) THEN [to |-> "image", settled |-> Pending]
  ELSE [to |-> "none",
        settled |-> Rejected("Unsupported file type: " \o ToLowerCase(ExtName(f)))]

\* ------------------------------------------------ loader: processPdfFile
MaxPdfPages == 3

\* the text pdf-parse extracts locally
PdfTexts == {"local text"}
RasterCauses == {"conversion error", "Invalid PDF structure"}

\* pdfData.text / merged text of a document that has no pdf.loc: page number 0
\* stands for "no loc annotation" (page numbers are 1-based)
WholeDocument(text, err) ==
  [pageContent |-> text, pageNumber |-> 0, error |-> err, hasImages |-> FALSE]

\* metadata without a pdf entry
NoPdf == [present |-> FALSE, version |-> Undefined, info |-> Undefined,
          totalPages |-> 0]

\* baseMetadata.pdf = {version, info, metadata, totalPages} as pdf-parse reports
BasePdf(n) == [present |-> TRUE, version |-> "1.10.100", info |-> "PDF 1.7",
               totalPages |-> n]

\* a document whose metadata spreads the metadata handed in ({...metadata,
\* pdf: {...metadata.pdf, ...}}): it carries the pdf fields of that metadata
WithPdf(d, p) ==
  [pageContent |-> d.pageContent, pageNumber |-> d.pageNumber,
   error |-> d.error, hasImages |-> d.hasImages, pdf |-> p]

\* faulty variant: the page texts are joined with a single line break
RECURSIVE JoinContentsNewline(_)
JoinContentsNewline(ds) ==
  IF Len(ds) = 0 THEN ""
  ELSE IF Len(ds) = 1 THEN ds[1].pageContent
  ELSE ds[1].pageContent \o "\n" \o JoinContentsNewline(Tail(ds))

\* documents.map((doc) => doc.pageContent).join("\n\n")
RECURSIVE JoinContents(_)
JoinContents(ds) ==
  IF Len(ds) = 0 THEN ""
  ELSE IF Len(ds) = 1 THEN ds[1].pageContent
  ELSE ds[1].pageContent \o "\n\n" \o JoinContents(Tail(ds))

\* the pdf.error of the first error document among the pages, if any
RECURSIVE FirstError(_)
FirstError(ds) ==
  IF Len(ds) = 0 THEN Undefined
  ELSE IF ds[1].error # Undefined THEN ds[1].error
  ELSE FirstError(Tail(ds))

\* faulty variant: the merged document takes over the error of a failed page
MergedDocumentKeepsError(ds) == WholeDocument(JoinContents(ds), FirstError(ds))

\* processPdfFile with splitPages = false: new Document({pageContent: <the
\* joined contents>, metadata: baseMetadata}); nothing else of the page
\* documents is read
MergedDocument(ds) == WholeDocument(JoinContents(ds), Undefined)

LoaderIdle ==
  /\ lpc = "idle"
  /\ lsource = ""
  /\ lAllowed = DefaultImageTypes
  /\ forceImageConversion = FALSE
  /\ splitPages = TRUE
  /\ numpages = 0
  /\ pdf = NoPdf
  /\ convI = 0
  /\ images = <<>>
  /\ documents = <<>>
  /\ lcalls = <<>>
  /\ ocrIssued = <<>>
  /\ ocrAnswers = <<>>
  /\ rasterError = Undefined
  /\ loaded = Pending

BatchIdle ==
  /\ pc = "idle"
  /\ pages = <<>>
  /\ tempDir = "none"
  /\ tempFile = "none"
  /\ fsOps = <<>>
  /\ calls = <<>>
  /\ attempt = 0
  /\ jobStatus = "none"
  /\ job = NoJob
  /\ slept = 0
  /\ waitResult = None
  /\ results = <<>>
  /\ inner = None
  /\ warnings = <<>>
  /\ outcome = Pending

\* the loader as constructed, at the call of parse(raw, metadata): splitPages,
\* forceImageConversion and supportedImageTypes as configured
LoaderInit ==
  /\ lpc = "parse"
  /\ lsource \in Sources
  /\ lAllowed \in AllowLists
  /\ forceImageConversion \in BOOLEAN
  /\ splitPages \in BOOLEAN
  /\ numpages = 0
  /\ pdf = NoPdf
  /\ convI = 0
  /\ images = <<>>
  /\ documents = <<>>
  /\ lcalls = <<>>
  /\ ocrIssued = <<>>
  /\ ocrAnswers = <<>>
  /\ rasterError = Undefined
  /\ loaded = Pending

\* parse(raw, metadata): the source and the extension are checked, then the
\* file goes to processPdfFile or processImageFile. Both are returned without
\* await, so the catch block of parse sees none of their rejections
Parse ==
  /\ lpc = "parse"
  /\ loaded' = Dispatch(lsource, lAllowed).settled
  /\ lpc' = IF Dispatch(lsource, lAllowed).to = "pdf" THEN "pdfParse"
            ELSE IF Dispatch(lsource, lAllowed).to = "image" THEN "imageFile"
            ELSE "done"
  /\ UNCHANGED <<forceImageConversion, splitPages, numpages, pdf, convI, images,
                 documents, lcalls, ocrIssued, ocrAnswers, rasterError>>
  /\ UNCHANGED <<lsource, lAllowed>>
  /\ UNCHANGED <<batchVars, directVars, unitVars>>

\* processImageFile: const doc = await this.ocrService.processSingle(buffer,
\* metadata); return [doc]
ProcessImageFile ==
  /\ lpc = "imageFile"
  /\ lcalls' = Append(lcalls, "ocr.process")
  /\ \E resp \in OcrResponses :
       loaded' = Resolved(<<WithPdf(ProcessSingle(resp, 1), NoPdf)>>)
  /\ lpc' = "done"
  /\ UNCHANGED <<forceImageConversion, splitPages, numpages, pdf, convI, images,
                 documents, ocrIssued, ocrAnswers, rasterError>>
  /\ UNCHANGED <<lsource, lAllowed>>
  /\ UNCHANGED <<batchVars, directVars, unitVars>>

\* const pdfData = await pdfParse(buffer): outside the try block; then
\* baseMetadata.pdf is filled from pdfData
PdfParse ==
  /\ lpc = "pdfParse"
  /\ lcalls' = Append(lcalls, "pdfParse")
  /\ \/ \E m \in Causes :
          /\ loaded' = Rejected(m)
          /\ lpc' = "done"
          /\ UNCHANGED <<numpages, pdf, convI>>
     \/ \E n \in 0..MaxPdfPages :
          /\ numpages' = n
          /\ pdf' = BasePdf(n)
          /\ convI' = 1
          /\ lpc' = IF forceImageConversion THEN "convert" ELSE "text"
          /\ UNCHANGED loaded
  /\ UNCHANGED <<forceImageConversion, splitPages, images, documents, ocrIssued,
                 ocrAnswers, rasterError>>
  /\ UNCHANGED <<lsource, lAllowed>>
  /\ UNCHANGED <<batchVars, directVars, unitVars>>

\* if (!this.forceImageConversion) return [new Document({pageContent: pdfData.text, ...})]
ReturnLocalText ==
  /\ lpc = "text"
  /\ \E t \in PdfTexts :
       loaded' = Resolved(<<WithPdf(WholeDocument(t, Undefined), pdf)>>)
  /\ lpc' = "done"
  /\ UNCHANGED <<forceImageConversion, splitPages, numpages, pdf, convI, images,
                 documents, lcalls, ocrIssued, ocrAnswers, rasterError>>
  /\ UNCHANGED <<lsource, lAllowed>>
  /\ UNCHANGED <<batchVars, directVars, unitVars>>

\* faulty variant: the catch block writes pdf: {error} without the base fields
ConversionFailedDropsPdf(m, p) == Resolved(<<WithPdf(WholeDocument("", m), NoPdf)>>)

\* the catch block of processPdfFile: one document for the whole file, with
\* pdf: {...baseMetadata.pdf, error: err.message}
ConversionFailed(m, p) == Resolved(<<WithPdf(WholeDocument("", m), p)>>)

\* one iteration of for (let i = 1; i <= pdfData.numpages; i++): the page is
\* rasterized and pushed, or convertPdfToImage throws into the catch block
ConvertPage ==
  /\ lpc = "convert"
  /\ convI <= numpages
  /\ lcalls' = Append(lcalls, "convertPdfToImage")
  /\ \/ /\ images' = Append(images, convI)
        /\ convI' = convI + 1
        /\ UNCHANGED <<loaded, lpc, rasterError>>
     \/ \E m \in RasterCauses :
          /\ rasterError' = m
          /\ loaded' = ConversionFailed(m, pdf)
          /\ lpc' = "done"
          /\ UNCHANGED <<images, convI>>
  /\ UNCHANGED <<forceImageConversion, splitPages, numpages, pdf, documents,
                 ocrIssued, ocrAnswers>>
  /\ UNCHANGED <<lsource, lAllowed>>
  /\ UNCHANGED <<batchVars, directVars, unitVars>>

\* the loop ends and processPages starts
StartProcessPages ==
  /\ lpc = "convert"
  /\ convI > numpages
  /\ lpc' = "ocr"
  /\ UNCHANGED <<forceImageConversion, splitPages, numpages, pdf, convI, images,
                 documents, lcalls, ocrIssued, ocrAnswers, rasterError, loaded>>
  /\ UNCHANGED <<lsource, lAllowed>>
  /\ UNCHANGED <<batchVars, directVars, unitVars>>

\* faulty variant: the call is not awaited and the loop goes on at once
AfterIssueNoAwait == "ocr"

\* const doc = await this.ocrService.processSingle(...): the loop is suspended
\* until the call settles
AfterIssue == "awaitOcr"

\* the loop of processPages calls processSingle(pages[i], metadata, i + 1)
IssueOcrCall ==
  /\ lpc = "ocr"
  /\ Len(ocrIssued) < Len(images)
  /\ ocrIssued' = Append(ocrIssued, Len(ocrIssued) + 1)
  /\ lcalls' = Append(lcalls, "ocr.process")
  /\ lpc' = AfterIssue
  /\ UNCHANGED <<forceImageConversion, splitPages, numpages, pdf, convI, images,
                 documents, ocrAnswers, rasterError, loaded>>
  /\ UNCHANGED <<lsource, lAllowed>>
  /\ UNCHANGED <<batchVars, directVars, unitVars>>

\* the awaited processSingle settles with its document; documents.push(doc)
ProcessPage ==
  /\ lpc = "awaitOcr"
  /\ \E resp \in OcrResponses :
       /\ ocrAnswers' = Append(ocrAnswers, resp)
       /\ documents' =
            Append(documents,
                   WithPdf(ProcessSingle(resp, ocrIssued[Len(ocrIssued)]), pdf))
  /\ lpc' = "ocr"
  /\ UNCHANGED <<forceImageConversion, splitPages, numpages, pdf, convI, images,
                 lcalls, ocrIssued, rasterError, loaded>>
  /\ UNCHANGED <<lsource, lAllowed>>
  /\ UNCHANGED <<batchVars, directVars, unitVars>>

\* processPages returns; the documents are returned as they are or merged
ReturnPages ==
  /\ lpc = "ocr"
  /\ Len(ocrIssued) >= Len(images)
  /\ loaded' = IF splitPages THEN Resolved(documents)
               ELSE Resolved(<<WithPdf(MergedDocument(documents), pdf)>>)
  /\ lpc' = "done"
  /\ UNCHANGED <<forceImageConversion, splitPages, numpages, pdf, convI, images,
                 documents, lcalls, ocrIssued, ocrAnswers, rasterError>>
  /\ UNCHANGED <<lsource, lAllowed>>
  /\ UNCHANGED <<batchVars, directVars, unitVars>>

\* ------------------------- direct loader: processPdfFile, processImageFile
MaxResponsePages == 2

\* messages mistralClient.ocr.process rejects with: the client passes on the
\* text the server or the network layer reports, whatever it is
TransportCauses == {"OCR failed", "Malformed response structure"}
MetadataCauses == {"Invalid PDF structure"}
SharpCauses == {"Input buffer contains unsupported image format"}

\* entries of response.pages: null, a page without markdown, pages with text
DirectPages == {NoPage, OcrPage(Undefined), OcrPage("text A"), OcrPage("text B")}

NoAnswer == [kind |-> "none", message |-> "", hasPages |-> FALSE, pages |-> <<>>]

\* answers of ocr.process: a rejection, a response without `pages`, a
\* response with a pages array (which may be empty)
DirectAnswers ==
  {[kind |-> "rejected", message |-> m, hasPages |-> FALSE, pages |-> <<>>] :
     m \in TransportCauses}
    \cup {[kind |-> "response", message |-> "", hasPages |-> FALSE, pages |-> <<>>]}
    \cup {[kind |-> "response", message |-> "", hasPages |-> TRUE, pages |-> ps] :
            ps \in SeqsUpTo(DirectPages, MaxResponsePages)}

MalformedMessage == "Malformed response structure"

\* faulty variant: the catch block rethrows the transport error as it is
WrapOcrErrorRethrows(m) == m

\* throw new Error(`OCR processing failed: ${err.message}`)
WrapOcrError(m) == "OCR processing failed: " \o m

\* page.markdown || ""
MarkdownOrEmpty(page) == IF Truthy(page.markdown) THEN page.markdown ELSE ""

\* the Document processPdf builds for response.pages[index - 1]
PdfPageDocument(page, index, p) ==
  [pageContent |-> MarkdownOrEmpty(page), pageNumber |-> index,
   error |-> Undefined, hasImages |-> TRUE, pdf |-> p]

\* the Document processImage builds for response.pages[0]: no pdf entry
ImageDocument(page) ==
  [pageContent |-> MarkdownOrEmpty(page), pageNumber |-> 0,
   error |-> Undefined, hasImages |-> TRUE, pdf |-> NoPdf]

\* processPdf after the call settled: only an absent `pages` is malformed; a
\* null entry makes page.markdown throw a TypeError inside the try
ProcessPdf(ans, p) ==
  IF ans.kind = "rejected" THEN Rejected(WrapOcrError(ans.message))
  ELSE IF ~ans.hasPages THEN Rejected(WrapOcrError(MalformedMessage))
  ELSE IF \E i \in 1..Len(ans.pages) : ~ans.pages[i].present
    THEN Rejected(WrapOcrError(TypeErrorMessage))
  ELSE Resolved([i \in 1..Len(ans.pages) |->
                   PdfPageDocument(ans.pages[i], i, p)])

\* processImage after the call settled: !response.pages || !response.pages[0]
ProcessImage(ans) ==
  IF ans.kind = "rejected" THEN Rejected(WrapOcrError(ans.message))
  ELSE IF ~ans.hasPages \/ Len(ans.pages) = 0 THEN
    Rejected(WrapOcrError(MalformedMessage))
  ELSE IF ~ans.pages[1].present THEN Rejected(WrapOcrError(MalformedMessage))
  ELSE Resolved(<<ImageDocument(ans.pages[1])>>)

\* buffer[i] of JavaScript, 0-based: bytes past the end are undefined and
\* equal no number
ByteAt(buf, i) == IF i + 1 <= Len(buf) THEN buf[i + 1] ELSE -1

\* faulty variant: the branch for the RIFF container is missing
DetectedMimeNoWebp(buf) ==
  IF ByteAt(buf, 0) = 255 /\ ByteAt(buf, 1) = 216 THEN "image/jpeg"
  ELSE IF \/ /\ ByteAt(buf, 0) = 73 /\ ByteAt(buf, 1) = 73
             /\ ByteAt(buf, 2) = 42 /\ ByteAt(buf, 3) = 0
          \/ /\ ByteAt(buf, 0) = 77 /\ ByteAt(buf, 1) = 77
             /\ ByteAt(buf, 2) = 0 /\ ByteAt(buf, 3) = 42
    THEN "image/tiff"
  ELSE "image/png"

\* the magic-number test of processImage: mimeType starts as "image/png" and
\* is replaced when the leading bytes are ff d8, 52 49, 49 49 2a 00 or
\* 4d 4d 00 2a
DetectedMime(buf) ==
  IF ByteAt(buf, 0) = 255 /\ ByteAt(buf, 1) = 216 THEN "image/jpeg"
  ELSE IF ByteAt(buf, 0) = 82 /\ ByteAt(buf, 1) = 73 THEN "image/webp"
  ELSE IF \/ /\ ByteAt(buf, 0) = 73 /\ ByteAt(buf, 1) = 73
             /\ ByteAt(buf, 2) = 42 /\ ByteAt(buf, 3) = 0
          \/ /\ ByteAt(buf, 0) = 77 /\ ByteAt(buf, 1) = 77
             /\ ByteAt(buf, 2) = 0 /\ ByteAt(buf, 3) = 42
    THEN "image/tiff"
  ELSE "image/png"

\* isTiff is set in the same branch as mimeType = "image/tiff"
IsTiff(buf) == DetectedMime(buf) = "image/tiff"

\* leading bytes of the files handed in: the five supported signatures, other
\* formats, near misses of the signatures, a short and an empty buffer
Buffers ==
  { <<137, 80, 78, 71>>, <<255, 216, 255, 224>>, <<82, 73, 70, 70>>,
    <<73, 73, 42, 0>>, <<77, 77, 0, 42>>,
    <<71, 73, 70, 56>>, <<66, 77, 0, 0>>, <<37, 80, 68, 70>>,
    <<82, 73, 0, 0>>, <<73, 73, 0, 0>>, <<77, 77, 42, 0>>, <<0, 0, 0, 0>>,
    <<255, 216>>, <<>> }

NoPayload == [type |-> "none", mime |-> Undefined, bytes |-> Undefined]

\* faulty variant: the original bytes are kept after the conversion
ReencodeKeepsOriginal(b) == b

\* sharp(buffer).jpeg({quality: 90}).toBuffer()
Reencode(b) == "jpeg of " \o b

DirectIdle ==
  /\ dpc = "idle"
  /\ dFile = "none"
  /\ source = ""
  /\ fileExists = FALSE
  /\ dAllowed = DefaultImageTypes
  /\ buffer = <<>>
  /\ imageBuffer = "original"
  /\ submitted = NoPayload
  /\ dSplitPages = TRUE
  /\ mimeType = Undefined
  /\ dBasePdf = NoPdf
  /\ metaError = Undefined
  /\ dcalls = <<>>
  /\ dwarnings = <<>>
  /\ response = NoAnswer
  /\ dloaded = Pending

\* the loader as constructed, at the call of load() on its file path or of
\* parse(raw, metadata) with any metadata.source
DirectInit ==
  /\ dpc \in {"load", "parse"}
  /\ dFile = "none"
  /\ source \in Sources
  /\ dpc = "load" => source # ""
  /\ fileExists \in BOOLEAN
  /\ dAllowed \in AllowLists
  /\ buffer \in Buffers
  /\ imageBuffer = "original"
  /\ submitted = NoPayload
  /\ dSplitPages \in BOOLEAN
  /\ mimeType = Undefined
  /\ dBasePdf = NoPdf
  /\ metaError = Undefined
  /\ dcalls = <<>>
  /\ dwarnings = <<>>
  /\ response = NoAnswer
  /\ dloaded = Pending

\* faulty variant: the access check is left to the read
FileNotFoundRaw(f) == "ENOENT: no such file or directory, open " \o f

\* throw new Error(`File not found: ${filePath}`)
FileNotFound(f) == "File not found: " \o f

\* load(): try { await fs.promises.access(filePath) } catch { throw ... }
CheckAccess ==
  /\ dpc = "load"
  /\ dcalls' = Append(dcalls, "fs.access")
  /\ IF fileExists
       THEN dpc' = "readFile" /\ UNCHANGED dloaded
       ELSE dpc' = "done" /\ dloaded' = Rejected(FileNotFound(source))
  /\ UNCHANGED <<dFile, source, fileExists, dAllowed, buffer, imageBuffer,
                 submitted, dSplitPages, mimeType, dBasePdf, metaError,
                 dwarnings, response>>
  /\ UNCHANGED <<batchVars, loaderVars, unitVars>>

\* load(): const buffer = await fs.promises.readFile(filePath); the outer
\* catch rethrows a failure as it is
ReadFile ==
  /\ dpc = "readFile"
  /\ dcalls' = Append(dcalls, "fs.readFile")
  /\ \/ dpc' = "parse" /\ UNCHANGED dloaded
     \/ \E m \in FsCauses : dpc' = "done" /\ dloaded' = Rejected(m)
  /\ UNCHANGED <<dFile, source, fileExists, dAllowed, buffer, imageBuffer,
                 submitted, dSplitPages, mimeType, dBasePdf, metaError,
                 dwarnings, response>>
  /\ UNCHANGED <<batchVars, loaderVars, unitVars>>

\* parse(raw, metadata): the source and the extension are checked, then the
\* file goes to processPdfFile or processImageFile; the catch rethrows
ParseDirect ==
  /\ dpc = "parse"
  /\ dFile' = Dispatch(source, dAllowed).to
  /\ dloaded' = Dispatch(source, dAllowed).settled
  /\ dpc' = IF Dispatch(source, dAllowed).to = "pdf" THEN "parsePDF"
            ELSE IF Dispatch(source, dAllowed).to = "image" THEN "detect"
            ELSE "done"
  /\ UNCHANGED <<source, fileExists, dAllowed, buffer, imageBuffer, submitted,
                 dSplitPages, mimeType, dBasePdf, metaError, dcalls, dwarnings,
                 response>>
  /\ UNCHANGED <<batchVars, loaderVars, unitVars>>

\* the catch block around parsePDF: warn, keep the caller's metadata, go on
AfterMetadataFailure(m) == [to |-> "processPdf", settled |-> Pending]

\* try { pdfData = await parsePDF(...); baseMetadata = {...metadata, pdf} }
\* catch { console.warn(...); baseMetadata = metadata }
ParsePdfMetadata ==
  /\ dpc = "parsePDF"
  /\ dcalls' = Append(dcalls, "parsePDF")
  /\ \/ \E n \in 0..MaxPdfPages :
          /\ dBasePdf' = BasePdf(n)
          /\ dpc' = "processPdf"
          /\ UNCHANGED <<metaError, dwarnings, dloaded>>
     \/ \E m \in MetadataCauses :
          /\ metaError' = m
          /\ dwarnings' = Append(dwarnings, "Error parsing PDF metadata:")
          /\ dBasePdf' = NoPdf
          /\ dpc' = AfterMetadataFailure(m).to
          /\ dloaded' = AfterMetadataFailure(m).settled
  /\ UNCHANGED <<dFile, source, fileExists, dAllowed, buffer, imageBuffer,
                 submitted, dSplitPages, mimeType, response>>
  /\ UNCHANGED <<batchVars, loaderVars, unitVars>>

\* const documents = await this.ocrService.processPdf(buffer, baseMetadata),
\* then the documents are returned as they are or merged
SubmitPdf ==
  /\ dpc = "processPdf"
  /\ dcalls' = Append(dcalls, "ocr.process document_url")
  /\ submitted' = [type |-> "document_url", mime |-> "application/pdf",
                   bytes |-> imageBuffer]
  /\ \E ans \in DirectAnswers :
       /\ response' = ans
       /\ dloaded' =
            IF ProcessPdf(ans, dBasePdf).kind = "rejected" \/ dSplitPages
              THEN ProcessPdf(ans, dBasePdf)
            ELSE Resolved(<<WithPdf(
                   WholeDocument(JoinContents(ProcessPdf(ans, dBasePdf).docs),
                                 Undefined), dBasePdf)>>)
  /\ dpc' = "done"
  /\ UNCHANGED <<dFile, source, fileExists, dAllowed, buffer, imageBuffer,
                 dSplitPages, mimeType, dBasePdf, metaError, dwarnings>>
  /\ UNCHANGED <<batchVars, loaderVars, unitVars>>

\* processImage: the magic numbers choose mimeType and isTiff
DetectFormat ==
  /\ dpc = "detect"
  /\ mimeType' = DetectedMime(buffer)
  /\ dpc' = IF IsTiff(buffer) THEN "sharp" ELSE "processImage"
  /\ UNCHANGED <<dFile, source, fileExists, dAllowed, buffer, imageBuffer,
                 submitted, dSplitPages, dBasePdf, metaError, dcalls, dwarnings,
                 response, dloaded>>
  /\ UNCHANGED <<batchVars, loaderVars, unitVars>>

\* if (isTiff) { imageBuffer = await sharp(buffer).jpeg(...).toBuffer();
\* mimeType = "image/jpeg" }: a failure is caught by the catch of processImage
ConvertTiff ==
  /\ dpc = "sharp"
  /\ dcalls' = Append(dcalls, "sharp")
  /\ \/ /\ imageBuffer' = Reencode(imageBuffer)
        /\ mimeType' = "image/jpeg"
        /\ dpc' = "processImage"
        /\ UNCHANGED dloaded
     \/ \E m \in SharpCauses :
          /\ dloaded' = Rejected(WrapOcrError(m))
          /\ dpc' = "done"
          /\ UNCHANGED <<mimeType, imageBuffer>>
  /\ UNCHANGED <<dFile, source, fileExists, dAllowed, buffer, submitted,
                 dSplitPages, dBasePdf, metaError, dwarnings, response>>
  /\ UNCHANGED <<batchVars, loaderVars, unitVars>>

\* const doc = await this.ocrService.processImage(buffer, metadata); return [doc]
SubmitImage ==
  /\ dpc = "processImage"
  /\ dcalls' = Append(dcalls, "ocr.process image_url")
  /\ submitted' = [type |-> "image_url", mime |-> mimeType,
                   bytes |-> imageBuffer]
  /\ \E ans \in DirectAnswers :
       /\ response' = ans
       /\ dloaded' = ProcessImage(ans)
  /\ dpc' = "done"
  /\ UNCHANGED <<dFile, source, fileExists, dAllowed, buffer, imageBuffer,
                 dSplitPages, mimeType, dBasePdf, metaError, dwarnings>>
  /\ UNCHANGED <<batchVars, loaderVars, unitVars>>

\* ------------------------------------------- two invocations, one disk
\* two calls of processBatch whose awaits interleave
Invocations == {"A", "B"}

\* names mkdtemp may give to a directory: the prefix and six characters
DirNames == {"mistral-ocr-Ab3xYz", "mistral-ocr-Qw9eRt"}

\* values of Date.now() while the two invocations run, in milliseconds
\* counted from the first of them: both may get the same one
Clock == {0, 1}

\* `batch-${Date.now()}.jsonl`
BatchFileName(t) == "batch-" \o ToString(t) \o ".jsonl"

NoPath == [dir |-> "none", name |-> "none"]

\* faulty variant: the directory is a fixed one instead of a fresh one
FixedDirName(existing) == {"mistral-ocr-Ab3xYz"}

\* fs.promises.mkdtemp(prefix): the name of a directory that does not exist
FreshDirNames(existing) == DirNames \ existing

ConcurrentIdle ==
  /\ bpc = [p \in Invocations |-> "idle"]
  /\ bDir = [p \in Invocations |-> "none"]
  /\ bPath = [p \in Invocations |-> NoPath]
  /\ bRead = [p \in Invocations |-> "none"]
  /\ bWarned = [p \in Invocations |-> 0]
  /\ fsDirs = {}
  /\ fsFiles = {}

\* both invocations have built their requests and are about to call
\* createBatchFile; the temporary directory holds nothing of theirs
ConcurrentInit ==
  /\ bpc = [p \in Invocations |-> "mkdtemp"]
  /\ bDir = [p \in Invocations |-> "none"]
  /\ bPath = [p \in Invocations |-> NoPath]
  /\ bRead = [p \in Invocations |-> "none"]
  /\ bWarned = [p \in Invocations |-> 0]
  /\ fsDirs = {}
  /\ fsFiles = {}

\* the file at a path, if there is one
FilesAt(path) == {f \in fsFiles : f.dir = path.dir /\ f.name = path.name}

\* what the steps of one invocation leave alone
ConcurrentFrame ==
  UNCHANGED <<batchVars, loaderVars, directVars, constructVars, normalizeVars,
              correlateVars>>

\* createBatchFile: const tempDir = await fs.promises.mkdtemp(...)
Mkdtemp(p) ==
  /\ bpc[p] = "mkdtemp"
  /\ \/ /\ bpc' = [bpc EXCEPT ![p] = "done"]
        /\ UNCHANGED <<bDir, fsDirs>>
     \/ \E d \in FreshDirNames({r.name : r \in fsDirs}) :
          /\ fsDirs' = fsDirs \cup {[name |-> d, creator |-> p]}
          /\ bDir' = [bDir EXCEPT ![p] = d]
          /\ bpc' = [bpc EXCEPT ![p] = "writeFile"]
  /\ UNCHANGED <<bPath, bRead, bWarned, fsFiles>>
  /\ ConcurrentFrame

\* createBatchFile: tempFilePath = path.join(tempDir, `batch-${Date.now()}
\* .jsonl`); await fs.promises.writeFile(tempFilePath, jsonlContent)
WriteFile(p) ==
  /\ bpc[p] = "writeFile"
  /\ \E t \in Clock :
       /\ bPath' = [bPath EXCEPT ![p] = [dir |-> bDir[p], name |-> BatchFileName(t)]]
       /\ \/ /\ bpc' = [bpc EXCEPT ![p] = "done"]
             /\ UNCHANGED fsFiles
          \/ /\ fsFiles' = (fsFiles \ FilesAt(bPath'[p]))
                             \cup {[dir |-> bDir[p], name |-> BatchFileName(t),
                                    content |-> p]}
             /\ bpc' = [bpc EXCEPT ![p] = "readFile"]
  /\ UNCHANGED <<bDir, bRead, bWarned, fsDirs>>
  /\ ConcurrentFrame

\* uploadBatchFile: const fileContent = await fs.promises.readFile(filePath);
\* a rejection ends processBatch in the outer catch, without cleanup
ReadBatchFile(p) ==
  /\ bpc[p] = "readFile"
  /\ \/ /\ bpc' = [bpc EXCEPT ![p] = "done"]
        /\ UNCHANGED bRead
     \/ \E f \in FilesAt(bPath[p]) :
          /\ bRead' = [bRead EXCEPT ![p] = f.content]
          /\ bpc' = [bpc EXCEPT ![p] = "upload"]
  /\ UNCHANGED <<bDir, bPath, bWarned, fsDirs, fsFiles>>
  /\ ConcurrentFrame

\* uploadBatchFile: await this.mistralClient.files.upload(...); a rejection
\* ends processBatch in the outer catch, without cleanup
Upload(p) ==
  /\ bpc[p] = "upload"
  /\ \/ bpc' = [bpc EXCEPT ![p] = "done"]
     \/ bpc' = [bpc EXCEPT ![p] = "job"]
  /\ UNCHANGED <<bDir, bPath, bRead, bWarned, fsDirs, fsFiles>>
  /\ ConcurrentFrame

\* the inner try: job creation, polling, download and mapping touch no file;
\* however they end, the finally block comes next
RunJob(p) ==
  /\ bpc[p] = "job"
  /\ bpc' = [bpc EXCEPT ![p] = "rm"]
  /\ UNCHANGED <<bDir, bPath, bRead, bWarned, fsDirs, fsFiles>>
  /\ ConcurrentFrame

\* cleanupTempFiles: await fs.promises.rm(filePath); a rejection (the file
\* is missing, or any other cause) is logged and ends the cleanup
Rm(p) ==
  /\ bpc[p] = "rm"
  /\ \/ /\ bWarned' = [bWarned EXCEPT ![p] = @ + 1]
        /\ bpc' = [bpc EXCEPT ![p] = "done"]
        /\ UNCHANGED fsFiles
     \/ /\ FilesAt(bPath[p]) # {}
        /\ fsFiles' = fsFiles \ FilesAt(bPath[p])
        /\ bpc' = [bpc EXCEPT ![p] = "rmdir"]
        /\ UNCHANGED bWarned
  /\ UNCHANGED <<bDir, bPath, bRead, fsDirs>>
  /\ ConcurrentFrame

\* cleanupTempFiles: await fs.promises.rmdir(path.dirname(filePath)); it
\* removes an empty directory only; a rejection is logged
Rmdir(p) ==
  /\ bpc[p] = "rmdir"
  /\ \/ /\ bWarned' = [bWarned EXCEPT ![p] = @ + 1]
        /\ UNCHANGED fsDirs
     \/ /\ \A f \in fsFiles : f.dir # bPath[p].dir
        /\ fsDirs' = {r \in fsDirs : r.name # bPath[p].dir}
        /\ UNCHANGED bWarned
  /\ bpc' = [bpc EXCEPT ![p] = "done"]
  /\ UNCHANGED <<bDir, bPath, bRead, fsFiles>>
  /\ ConcurrentFrame

\* ------------------------------------- requests and lines of the output
\* the largest batch whose output orders are enumerated
MaxBatchPages == 3

\* custom_id: `page_${index + 1}`
CustomId(i) == "page_" \o ToString(i)

\* the orders in which n lines can stand in a file
Orders(n) == {f \in [1..n -> 1..n] : \A i, j \in 1..n : f[i] = f[j] => i = j}

\* what the service may report for the request with custom_id id: the text
\* it read on that page, or an error
ResultsFor(id) ==
  {[custom_id |-> id, error |-> Undefined, page |-> OcrPage("text of " \o id)],
   [custom_id |-> id, error |-> "failed " \o id, page |-> NoPage]}

CorrelateIdle ==
  /\ kpc = "idle"
  /\ kPages = 0
  /\ kRequests = <<>>
  /\ kLines = <<>>
  /\ kDocs = None

\* processBatch called with two or more pages
CorrelateInit ==
  /\ kpc = "start"
  /\ kPages \in 2..MaxBatchPages
  /\ kRequests = <<>>
  /\ kLines = <<>>
  /\ kDocs = None

\* const requests = pages.map((pageBuffer, index) => ({custom_id:
\* `page_${index + 1}`, ...})), written to the input file line by line
SubmitRequests ==
  /\ kpc = "start"
  /\ kRequests' = [i \in 1..kPages |-> CustomId(i)]
  /\ kpc' = "submitted"
  /\ UNCHANGED <<kPages, kLines, kDocs>>
  /\ UNCHANGED <<batchVars, loaderVars, directVars, constructVars,
                 normalizeVars, concurrentVars>>

\* the job succeeds: the service writes one line per request, in an order of
\* its own
WriteOutputFile ==
  /\ kpc = "submitted"
  /\ \E order \in Orders(kPages) :
       \E rs \in [1..kPages -> UNION {ResultsFor(CustomId(i)) : i \in 1..kPages}] :
         /\ \A i \in 1..kPages : rs[i] \in ResultsFor(kRequests[order[i]])
         /\ kLines' = rs
  /\ kpc' = "written"
  /\ UNCHANGED <<kPages, kRequests, kDocs>>
  /\ UNCHANGED <<batchVars, loaderVars, directVars, constructVars,
                 normalizeVars, concurrentVars>>

\* results.map((result, index) => ...): the document of line index gets page
\* number index + 1; custom_id is not read
MapOutputLines ==
  /\ kpc = "written"
  /\ kDocs' = MapResults(kLines)
  /\ kpc' = "mapped"
  /\ UNCHANGED <<kPages, kRequests, kLines>>
  /\ UNCHANGED <<batchVars, loaderVars, directVars, constructVars,
                 normalizeVars, concurrentVars>>

\* ----------------------------------------------- a page becomes a Document
\* a coordinate the service sent as null, and one it left out
NullCoord == -1
NoCoord == -2

\* null, where it has to be told from undefined
NullValue == "<null>"

\* values of a coordinate of OCRImageObject (number | null, or absent)
RawCoords == {NullCoord, NoCoord, 0, 12}

\* values of OCRImageObject.imageBase64
RawBase64 == {Undefined, NullValue, "iVBORw0KGgo="}

RawImages ==
  [id : {"img-0.jpeg"}, topLeftX : RawCoords, topLeftY : RawCoords,
   bottomRightX : RawCoords, bottomRightY : RawCoords, imageBase64 : RawBase64]

\* values of page.images: absent, empty, one image, two images
RawImageLists ==
  {[given |-> FALSE, list |-> <<>>], [given |-> TRUE, list |-> <<>>]}
    \cup {[given |-> TRUE, list |-> <<im>>] : im \in RawImages}
    \cup {[given |-> TRUE, list |->
             <<[id |-> "img-0.jpeg", topLeftX |-> 12, topLeftY |-> NullCoord,
                bottomRightX |-> 0, bottomRightY |-> NoCoord,
                imageBase64 |-> NullValue],
               [id |-> "img-1.jpeg", topLeftX |-> NoCoord, topLeftY |-> 0,
                bottomRightX |-> 12, bottomRightY |-> 12,
                imageBase64 |-> "iVBORw0KGgo="]>>]}

\* pages[0] of a response, with everything the Document is built from
RawPages ==
  [markdown : {Undefined, "", "text A"}, images : RawImageLists,
   dimensions : {Undefined, "dpi 200, 1700 x 2200"}]

NoRawPage ==
  [markdown |-> Undefined, images |-> [given |-> FALSE, list |-> <<>>],
   dimensions |-> Undefined]

\* no Document yet
NoDocument ==
  [pageContent |-> Undefined, pageNumber |-> 0, error |-> Undefined,
   pdf |-> NoPdf, hasImages |-> FALSE, images |-> <<>>,
   dimensions |-> Undefined]

NormalizeIdle ==
  /\ npc = "idle"
  /\ rawPage = NoRawPage
  /\ nPageNumber = 0
  /\ nBase = NoPdf
  /\ nError = Undefined
  /\ nDoc = NoDocument

\* a page, or the error of a failed page, is about to become a Document
NormalizeInit ==
  /\ npc = "new"
  /\ rawPage \in RawPages
  /\ nPageNumber \in {1, 2}
  /\ nBase = IF nPageNumber = 1 THEN NoPdf ELSE BasePdf(2)
  /\ nError = "API error"
  /\ nDoc = NoDocument

\* faulty variant: the coordinate is passed on as it came
CoordAsSent(v) == v

\* image.topLeftX ?? 0
Coord(v) == IF v = NullCoord \/ v = NoCoord THEN 0 ELSE v

\* image.imageBase64 ?? undefined
Base64(v) == IF v = NullValue \/ v = Undefined THEN Undefined ELSE v

\* x || null
OrNull(v) == IF Truthy(v) THEN v ELSE NullValue

\* the object processSingle builds for an image
SingleImage(image) ==
  [id |-> image.id,
   top_left_x |-> Coord(image.topLeftX),
   top_left_y |-> Coord(image.topLeftY),
   bottom_right_x |-> Coord(image.bottomRightX),
   bottom_right_y |-> Coord(image.bottomRightY),
   image_base64 |-> Base64(image.imageBase64)]

\* faulty variant: the batch path copies the left edge into the right one
BatchImageWrongEdge(image) ==
  [id |-> image.id,
   top_left_x |-> Coord(image.topLeftX),
   top_left_y |-> Coord(image.topLeftY),
   bottom_right_x |-> Coord(image.topLeftX),
   bottom_right_y |-> Coord(image.bottomRightY),
   image_base64 |-> Base64(image.imageBase64)]

\* the object the callback of processBatch builds for an image
BatchImage(image) ==
  [id |-> image.id,
   top_left_x |-> Coord(image.topLeftX),
   top_left_y |-> Coord(image.topLeftY),
   bottom_right_x |-> Coord(image.bottomRightX),
   bottom_right_y |-> Coord(image.bottomRightY),
   image_base64 |-> Base64(image.imageBase64)]

\* the object processImage and processPdf build for an image
DirectImage(image) ==
  [id |-> image.id,
   top_left_x |-> Coord(image.topLeftX),
   top_left_y |-> Coord(image.topLeftY),
   bottom_right_x |-> Coord(image.bottomRightX),
   bottom_right_y |-> Coord(image.bottomRightY),
   image_base64 |-> Base64(image.imageBase64)]

\* processSingle, try block: pages[0].images?.map(...) || [], dimensions ||
\* null, pageContent: pages[0].markdown as it is
SinglePageDocument(page, pageNumber, p) ==
  [pageContent |-> page.markdown, pageNumber |-> pageNumber,
   error |-> Undefined, pdf |-> p, hasImages |-> TRUE,
   images |-> [i \in 1..Len(page.images.list) |->
                 SingleImage(page.images.list[i])],
   dimensions |-> OrNull(page.dimensions)]

\* processSingle, catch block
SingleErrorDocument(message, pageNumber, p) ==
  [pageContent |-> "", pageNumber |-> pageNumber, error |-> message,
   pdf |-> p, hasImages |-> FALSE, images |-> <<>>, dimensions |-> Undefined]

\* processBatch, callback of results.map for a record without error
BatchPageDocument(page, pageNumber, p) ==
  [pageContent |-> page.markdown, pageNumber |-> pageNumber,
   error |-> Undefined, pdf |-> p, hasImages |-> TRUE,
   images |-> [i \in 1..Len(page.images.list) |->
                 BatchImage(page.images.list[i])],
   dimensions |-> OrNull(page.dimensions)]

\* processBatch, callback of results.map for a record with an error
BatchErrorDocument(err, pageNumber, p) ==
  [pageContent |-> "", pageNumber |-> pageNumber, error |-> err,
   pdf |-> p, hasImages |-> FALSE, images |-> <<>>, dimensions |-> Undefined]

\* processImage: pageContent: page.markdown || "", no pdf.loc; the pdf entry
\* of the metadata is spread as it is
DirectImageDocument(page, p) ==
  [pageContent |-> MarkdownOrEmpty(page), pageNumber |-> 0,
   error |-> Undefined, pdf |-> p, hasImages |-> TRUE,
   images |-> [i \in 1..Len(page.images.list) |->
                 DirectImage(page.images.list[i])],
   dimensions |-> OrNull(page.dimensions)]

\* processPdf: callback of response.pages.map
DirectPdfDocument(page, pageNumber, p) ==
  [pageContent |-> MarkdownOrEmpty(page), pageNumber |-> pageNumber,
   error |-> Undefined, pdf |-> p, hasImages |-> TRUE,
   images |-> [i \in 1..Len(page.images.list) |->
                 DirectImage(page.images.list[i])],
   dimensions |-> OrNull(page.dimensions)]

\* the Document is built by the code named
Built(name, doc) ==
  /\ npc = "new"
  /\ npc' = name
  /\ nDoc' = doc
  /\ UNCHANGED <<rawPage, nPageNumber, nBase, nError>>
  /\ UNCHANGED <<batchVars, loaderVars, directVars, constructVars,
                 correlateVars, concurrentVars>>

SinglePage ==
  Built("processSingle", SinglePageDocument(rawPage, nPageNumber, nBase))

SingleFailure ==
  Built("processSingle catch", SingleErrorDocument(nError, nPageNumber, nBase))

BatchPage ==
  Built("processBatch", BatchPageDocument(rawPage, nPageNumber, nBase))

BatchFailure ==
  Built("processBatch error", BatchErrorDocument(nError, nPageNumber, nBase))

ImagePage == Built("processImage", DirectImageDocument(rawPage, nBase))

PdfPage == Built("processPdf", DirectPdfDocument(rawPage, nPageNumber, nBase))

\* ------------------------------------------------------------ constructors
\* the classes: the service and the loader, each in its two source files
Classes ==
  {"service.ts MistralOcrService", "part_010 MistralOcrService",
   "loader.ts MistralOcrLoader", "part_009 MistralOcrLoader"}

\* an option the caller left out
NotGiven == [given |-> FALSE, list |-> <<>>]

\* the config argument: every option absent, empty or set
Configs ==
  [apiKey : {Undefined, "", "secret"},
   modelName : {Undefined, "mistral-ocr-2503"},
   splitPages : {Undefined, "true", "false"},
   forceImageConversion : {Undefined, "true", "false"},
   supportedImageTypes :
     {NotGiven} \cup {[given |-> TRUE, list |-> ts] : ts \in AllowLists}]

NoClient == "<no client>"

NoInstance ==
  [modelName |-> Undefined, splitPages |-> Undefined,
   forceImageConversion |-> Undefined, supportedImageTypes |-> <<>>]

ConstructIdle ==
  /\ cpc = "idle"
  /\ cClass = "none"
  /\ config = [apiKey |-> Undefined, modelName |-> Undefined,
               splitPages |-> Undefined, forceImageConversion |-> Undefined,
               supportedImageTypes |-> NotGiven]
  /\ clientKey = NoClient
  /\ instance = NoInstance
  /\ thrown = Undefined

UnitIdle ==
  ConstructIdle /\ NormalizeIdle /\ CorrelateIdle /\ ConcurrentIdle

\* `new MistralOcrService(config)` or `new MistralOcrLoader(path, config)`
\* is about to run
ConstructInit ==
  /\ cpc = "new"
  /\ cClass \in Classes
  /\ config \in Configs
  /\ clientKey = NoClient
  /\ instance = NoInstance
  /\ thrown = Undefined

\* config.modelName || "mistral-ocr-latest"
ModelNameOf(cfg) ==
  IF Truthy(cfg.modelName) THEN cfg.modelName ELSE "mistral-ocr-latest"

\* option ?? default
OrDefault(v, d) == IF v = Undefined THEN d ELSE v

\* if (!config.apiKey) of service.ts and of the two loaders
ApiKeyMissing(cfg) == ~Truthy(cfg.apiKey)

\* the three outcomes of a constructor: the error, the client, the fields
Constructed(err, key, fields) ==
  /\ thrown' = err
  /\ clientKey' = key
  /\ instance' = fields
  /\ cpc' = "done"
  /\ UNCHANGED <<cClass, config>>
  /\ UNCHANGED <<batchVars, loaderVars, directVars, normalizeVars,
                 correlateVars, concurrentVars>>

\* service.ts: the key is checked, then the client is created
ConstructService ==
  /\ cpc = "new"
  /\ cClass = "service.ts MistralOcrService"
  /\ IF ApiKeyMissing(config)
       THEN Constructed("Mistral API key is required", NoClient, NoInstance)
       ELSE Constructed(Undefined, config.apiKey,
                        [NoInstance EXCEPT !.modelName = ModelNameOf(config)])

\* part_010: the client is created with whatever config.apiKey holds
ConstructServiceDirect ==
  /\ cpc = "new"
  /\ cClass = "part_010 MistralOcrService"
  /\ Constructed(Undefined, config.apiKey,
                 [NoInstance EXCEPT !.modelName = ModelNameOf(config)])

\* loader.ts: the key is checked, the options get their defaults, then the
\* service of service.ts is constructed with the key
ConstructLoader ==
  /\ cpc = "new"
  /\ cClass = "loader.ts MistralOcrLoader"
  /\ IF ApiKeyMissing(config)
       THEN Constructed("Mistral API key is required", NoClient, NoInstance)
       ELSE Constructed(Undefined, config.apiKey,
              [modelName |-> ModelNameOf(config),
               splitPages |-> OrDefault(config.splitPages, "true"),
               forceImageConversion |->
                 OrDefault(config.forceImageConversion, "false"),
               supportedImageTypes |->
                 IF config.supportedImageTypes.given
                   THEN config.supportedImageTypes.list
                   ELSE DefaultImageTypes])

\* part_009: the key is checked, the options get their defaults, then the
\* service of part_010 is constructed with the key
ConstructLoaderDirect ==
  /\ cpc = "new"
  /\ cClass = "part_009 MistralOcrLoader"
  /\ IF ApiKeyMissing(config)
       THEN Constructed("Mistral API key is required", NoClient, NoInstance)
       ELSE Constructed(Undefined, config.apiKey,
              [modelName |-> ModelNameOf(config),
               splitPages |-> OrDefault(config.splitPages, "true"),
               forceImageConversion |-> Undefined,
               supportedImageTypes |->
                 IF config.supportedImageTypes.given
                   THEN config.supportedImageTypes.list
                   ELSE DefaultImageTypes])

\* --------------------------------------------------------- specification
Init == BatchInit /\ LoaderIdle /\ DirectIdle /\ UnitIdle

Next ==
  \/ ReturnEmpty
  \/ DelegateSingle
  \/ BuildRequests
  \/ CreateBatchFile
  \/ UploadBatchFile
  \/ CreateBatchJob
  \/ JobsGet
  \/ Delay
  \/ Timeout
  \/ DownloadResults
  \/ CleanupTempFiles
  \/ ReturnDocuments
  \/ CatchBatchError

Spec == Init /\ [][Next]_vars

\* processBatch of a service whose processSingle may have been replaced
SpyNext ==
  \/ Next
  \/ DelegateSingleRejects

SpySpec == Init /\ [][SpyNext]_vars

LoaderInitAll == LoaderInit /\ BatchIdle /\ DirectIdle /\ UnitIdle

LoaderNext ==
  \/ Parse
  \/ ProcessImageFile
  \/ PdfParse
  \/ ReturnLocalText
  \/ ConvertPage
  \/ StartProcessPages
  \/ IssueOcrCall
  \/ ProcessPage
  \/ ReturnPages

LoaderSpec == LoaderInitAll /\ [][LoaderNext]_vars

DirectInitAll == DirectInit /\ BatchIdle /\ LoaderIdle /\ UnitIdle

DirectNext ==
  \/ CheckAccess
  \/ ReadFile
  \/ ParseDirect
  \/ ParsePdfMetadata
  \/ SubmitPdf
  \/ DetectFormat
  \/ ConvertTiff
  \/ SubmitImage

DirectSpec == DirectInitAll /\ [][DirectNext]_vars

\* either loader of the repository, loading one file
ConstructInitAll ==
  /\ ConstructInit /\ NormalizeIdle /\ CorrelateIdle /\ ConcurrentIdle
  /\ BatchIdle /\ LoaderIdle /\ DirectIdle

NormalizeInitAll ==
  /\ NormalizeInit /\ ConstructIdle /\ CorrelateIdle /\ ConcurrentIdle
  /\ BatchIdle /\ LoaderIdle /\ DirectIdle

CorrelateInitAll ==
  /\ CorrelateInit /\ ConstructIdle /\ NormalizeIdle /\ ConcurrentIdle
  /\ BatchIdle /\ LoaderIdle /\ DirectIdle

CorrelateNext ==
  \/ SubmitRequests
  \/ WriteOutputFile
  \/ MapOutputLines

CorrelateSpec == CorrelateInitAll /\ [][CorrelateNext]_vars

ConcurrentInitAll ==
  /\ ConcurrentInit /\ ConstructIdle /\ NormalizeIdle /\ CorrelateIdle
  /\ BatchIdle /\ LoaderIdle /\ DirectIdle

ConcurrentNext ==
  \/ \E p \in Invocations : Mkdtemp(p)
  \/ \E p \in Invocations : WriteFile(p)
  \/ \E p \in Invocations : ReadBatchFile(p)
  \/ \E p \in Invocations : Upload(p)
  \/ \E p \in Invocations : RunJob(p)
  \/ \E p \in Invocations : Rm(p)
  \/ \E p \in Invocations : Rmdir(p)

ConcurrentSpec == ConcurrentInitAll /\ [][ConcurrentNext]_vars

NormalizeNext ==
  \/ SinglePage
  \/ SingleFailure
  \/ BatchPage
  \/ BatchFailure
  \/ ImagePage
  \/ PdfPage

NormalizeSpec == NormalizeInitAll /\ [][NormalizeNext]_vars


ConstructNext ==
  \/ ConstructService
  \/ ConstructServiceDirect
  \/ ConstructLoader
  \/ ConstructLoaderDirect

ConstructSpec == ConstructInitAll /\ [][ConstructNext]_vars

LoadersInit == LoaderInitAll \/ DirectInitAll

LoadersNext ==
  \/ LoaderNext
  \/ DirectNext

LoadersSpec == LoadersInit /\ [][LoadersNext]_vars

\* ------------------------------------------------------ helpers of claims
Count(s, x) == Cardinality({i \in DOMAIN s : s[i] = x})
Has(s, x) == \E i \in DOMAIN s : s[i] = x
NumGets == Count(calls, "batch.jobs.get")
TimedOut == Throw("Batch job timed out")

\* C1: once the interchange file has been created, its removal is attempted
\* before processBatch ends, on every exit path (upload failure included).
C1_CleanupOnEveryExit ==
  (pc = "done" /\ tempFile # "none") => Has(fsOps, "rm")

\* C2: a job that reports no Success and no Failed within maxAttempts queries
\* makes processBatch reject with the wrapped timeout error, and by then the
\* removal of the interchange file has been carried out (rm was called, and
\* unless the removal itself failed the file and its directory are gone).
C2_TimeoutCleansUp ==
  /\ (pc \in {"finally", "catch", "done"} /\ attempt = maxAttempts)
       => waitResult = TimedOut
  /\ (waitResult = TimedOut /\ outcome.kind # "pending")
       => /\ outcome = Rejected("Batch processing failed: Batch job timed out")
          /\ Has(fsOps, "rm")
          /\ warnings = <<>> => (tempFile = "removed" /\ tempDir = "removed")
  /\ (waitResult = TimedOut /\ pc = "done") => outcome.kind = "rejected"

C2_Witness ==
  /\ pc = "done"
  /\ attempt = maxAttempts
  /\ outcome = Rejected("Batch processing failed: Batch job timed out")
  /\ tempFile = "removed"

\* the terminal states of a batch job
C3_TerminalStates == {"Success", "Failed", "Canceled", "Expired"}

\* C3: once a status query has returned a terminal state (Success, Failed,
\* Canceled, Expired), no further status query is issued and no further delay
\* is waited.
C3_TerminalEndsPolling ==
  [][job.status \in C3_TerminalStates => (NumGets' = NumGets /\ slept' = slept)]_vars

\* the error strings the service reported for job j, separated by ", ";
\* "Unknown error" when that text is empty
RECURSIVE Listed(_, _)
Listed(es, n) ==
  IF n = 0 THEN ""
  ELSE IF n = 1 THEN es[1]
  ELSE Listed(es, n - 1) \o ", " \o es[n]

ReportedErrors(j) ==
  LET text == IF j.errorsDefined THEN Listed(j.errors, Len(j.errors)) ELSE ""
  IN IF text = "" THEN "Unknown error" ELSE text

\* C4 as stated: at most maxAttempts status queries, one delay after each
\* query that returned neither Success nor Failed, and waitForJobCompletion
\* ends in one of three ways: the output file reference, a job-failed error,
\* or the timeout error after exactly maxAttempts such queries.
C4_ThreeOutcomes ==
  /\ NumGets <= maxAttempts
  /\ slept = delayMs * attempt
  /\ waitResult.kind # "none" =>
       \/ waitResult = Return(<<job.outputFile>>) /\ job.status = "Success"
       \/ waitResult = Throw(FailedMessage(job)) /\ job.status = "Failed"
       \/ waitResult = TimedOut /\ attempt = maxAttempts /\ NumGets = maxAttempts

\* the polling loop's variant: it is never negative and every step of the
\* loop lowers it
C4_Rank == 2 * (maxAttempts - attempt) + (IF pc = "poll" THEN 1 ELSE 0)

C4_Progress ==
  pc \in {"poll", "delay"} => (C4_Rank' < C4_Rank /\ C4_Rank' >= 0)

C4_Bounds ==
  /\ NumGets <= maxAttempts
  /\ attempt <= maxAttempts
  /\ slept = delayMs * attempt
  /\ pc = "poll" => NumGets = attempt
  /\ pc = "delay" => (NumGets = attempt + 1 /\ job.status \notin {"Success", "Failed"})
  /\ waitResult.kind # "none" =>
       \/ /\ waitResult = Return(<<job.outputFile>>)
          /\ job.status = "Success"
          /\ job.outputFile # Undefined
       \/ waitResult = Throw("Batch job failed: " \o ReportedErrors(job))
            /\ job.status = "Failed"
       \/ waitResult = TimedOut /\ attempt = maxAttempts /\ NumGets = maxAttempts
       \/ /\ waitResult = Throw("Job completed but no output file was found")
          /\ job.status = "Success"
          /\ job.outputFile = Undefined
       \/ waitResult.kind = "throw" /\ waitResult.message \in Causes

\* C4 (amended): at most maxAttempts status queries, one delay after each
\* query that returned neither Success nor Failed, and waitForJobCompletion
\* always ends: with the output file reference, a job-failed error, the
\* no-output-file error, the error of a rejected status query, or the timeout
\* error after exactly maxAttempts queries that returned neither Success nor
\* Failed.
C4_BoundedPolling == []C4_Bounds /\ [][C4_Progress]_vars

C4_Witness ==
  /\ waitResult = TimedOut
  /\ NumGets = maxAttempts
  /\ slept = delayMs * maxAttempts

\* C5: a failure while creating the interchange file, uploading it, creating
\* the job or polling makes processBatch reject with "Batch processing
\* failed: " followed by the cause's message, and no document is returned.
C5_FailureIsWrapped ==
  LET cause == IF waitResult.kind = "throw" THEN waitResult.message ELSE inner.message
  IN (pc = "done" /\ Len(pages) >= 2 /\ ~Has(calls, "files.download"))
       => /\ outcome.kind = "rejected"
          /\ outcome.docs = <<>>
          /\ outcome.message = "Batch processing failed: " \o cause
          /\ \/ cause \in Causes \cup FsCauses
             \/ waitResult.kind = "throw"

C5_Witness ==
  /\ pc = "done"
  /\ calls = <<"files.upload", "batch.jobs.create">>
  /\ outcome \in {Rejected("Batch processing failed: " \o m) : m \in Causes}

\* C6: when a status query returns Failed, processBatch rejects with a
\* message that carries every error string the service reported, separated
\* by ", " ("Unknown error" when it reported none), and the output file is
\* never downloaded.
C6_FailedJobReportsErrors ==
  job.status = "Failed" =>
    /\ ~Has(calls, "files.download")
    /\ pc \notin {"poll", "delay", "download", "return"}
    /\ pc = "done" =>
         outcome = Rejected("Batch processing failed: Batch job failed: "
                              \o ReportedErrors(job))

C6_Witness ==
  /\ pc = "done"
  /\ job.status = "Failed"
  /\ job.errors = <<"quota exceeded", "bad input">>
  /\ outcome = Rejected("Batch processing failed: Batch job failed: quota exceeded, bad input")

\* C7: after a successful job every record that carries an error (a truthy
\* `error` field, as tested by the code) yields at its position a document
\* with empty pageContent and pdf.error equal to that error, every other
\* record yields a document with its recognized text, and an error record
\* never makes processBatch reject: it rejects only for a record that has
\* neither an error nor a first response page.
C7_ErrorRecordsAreIsolated ==
  (pc = "done" /\ Len(results) > 0) =>
    IF \A i \in 1..Len(results) : Truthy(results[i].error) \/ results[i].page.present
    THEN /\ outcome.kind = "resolved"
         /\ Len(outcome.docs) = Len(results)
         /\ \A i \in 1..Len(results) :
              IF Truthy(results[i].error)
              THEN /\ outcome.docs[i].pageContent = ""
                   /\ outcome.docs[i].error = results[i].error
              ELSE /\ outcome.docs[i].pageContent = results[i].page.markdown
                   /\ outcome.docs[i].error = Undefined
    ELSE outcome.kind = "rejected"

C7_Witness ==
  /\ pc = "done"
  /\ Len(results) = 2
  /\ results[1].error = "page failed"
  /\ results[2].error = Undefined
  /\ outcome.kind = "resolved"
  /\ outcome.docs[1].error = "page failed"
  /\ results[2].page = OcrPage("text B")
  /\ outcome.docs[2].pageContent = "text B"

\* the settlement a completion of the try blocks leads to
C8_Settled(completion) ==
  IF completion.kind = "return" THEN Resolved(completion.docs)
  ELSE Rejected("Batch processing failed: " \o completion.message)

C8_Step ==
  /\ pc = "finally" =>
       /\ inner' = inner
       /\ outcome' = outcome
       /\ warnings' # warnings =>
            \E m \in FsCauses :
              warnings' = Append(warnings, "Failed to cleanup temp files: " \o m)
  /\ (pc' = "done" /\ Has(fsOps, "rm")) => outcome' = C8_Settled(inner)

\* C8: a failure while removing the temporary file or its directory never
\* changes the outcome of processBatch: the completion reached before the
\* cleanup (the documents, or the batch error) is the one that settles the
\* promise, and the cleanup failure is only logged as one warning.
C8_CleanupFailureIsSwallowed == [][C8_Step]_vars

C8_Witness ==
  /\ pc = "done"
  /\ Len(warnings) = 1
  /\ tempFile = "exists"
  /\ outcome.kind = "resolved"
  /\ Len(outcome.docs) = 2

\* the place of a remote call in the protocol
C9_Stage(c) ==
  IF c = "files.upload" THEN 1
  ELSE IF c = "batch.jobs.create" THEN 2
  ELSE IF c = "batch.jobs.get" THEN 3
  ELSE IF c = "files.download" THEN 4
  ELSE 0

\* C9: in a multi-page batch the remote calls happen in the order upload,
\* job creation, status queries, download; upload, job creation and download
\* happen at most once, none is skipped, and the download follows a status
\* query that returned Success together with an output file reference.
C9_CallOrder ==
  Len(pages) >= 2 =>
    /\ \A i \in DOMAIN calls : C9_Stage(calls[i]) >= 1
    /\ \A i, k \in DOMAIN calls : i < k => C9_Stage(calls[i]) <= C9_Stage(calls[k])
    /\ Count(calls, "files.upload") <= 1
    /\ Count(calls, "batch.jobs.create") <= 1
    /\ Count(calls, "files.download") <= 1
    /\ Has(calls, "batch.jobs.create") => Has(calls, "files.upload")
    /\ Has(calls, "batch.jobs.get") => Has(calls, "batch.jobs.create")
    /\ Has(calls, "files.download") =>
         /\ calls[Len(calls) - 1] = "batch.jobs.get"
         /\ job.status = "Success"
         /\ job.outputFile \notin {Undefined, ""}

C9_Witness ==
  /\ pc = "done"
  /\ Len(calls) >= 6
  /\ calls[Len(calls)] = "files.download"
  /\ outcome.kind = "resolved"

\* C10: with forceImageConversion and splitPages, when the rasterization of
\* one page of an N-page PDF fails, N documents are returned: the failing
\* page's document is empty with a pdf.error, the other pages' documents hold
\* what OCR returned for them.
C10_RasterFailureIsPerPage ==
  (lpc = "done" /\ IsPdfFile(lsource) /\ forceImageConversion /\ splitPages
     /\ loaded.kind = "resolved" /\ convI <= numpages)
    => /\ Len(loaded.docs) = numpages
       /\ loaded.docs[convI].pageContent = ""
       /\ loaded.docs[convI].error # Undefined

\* C11: with forceImageConversion, when convertPdfToImage throws, the promise
\* of processPdfFile (which parse returns) is resolved, never rejected, and
\* the document returned for the failure has an empty pageContent, pdf.error
\* equal to the thrown message, and the pdf fields extracted locally
\* (version, info, totalPages).
C11_RasterFailureResolves ==
  rasterError # Undefined
    => /\ forceImageConversion
       /\ lpc = "done"
       /\ loaded.kind = "resolved"
       /\ Len(loaded.docs) >= 1
       /\ \A i \in 1..Len(loaded.docs) :
            /\ loaded.docs[i].pageContent = ""
            /\ loaded.docs[i].error = rasterError
            /\ loaded.docs[i].pdf.present
            /\ loaded.docs[i].pdf.version = BasePdf(numpages).version
            /\ loaded.docs[i].pdf.info = BasePdf(numpages).info
            /\ loaded.docs[i].pdf.totalPages = numpages

C11_Witness ==
  /\ lpc = "done"
  /\ rasterError = "Invalid PDF structure"
  /\ numpages = 2
  /\ Len(images) = 1
  /\ loaded.kind = "resolved"

\* C12: with forceImageConversion and splitPages, a PDF of N pages yields
\* exactly N documents, and the document at position i has page number i.
C12_OneDocumentPerPage ==
  (lpc = "done" /\ IsPdfFile(lsource) /\ forceImageConversion /\ splitPages
     /\ loaded.kind = "resolved")
    => /\ Len(loaded.docs) = numpages
       /\ \A i \in 1..Len(loaded.docs) : loaded.docs[i].pageNumber = i

\* C13: processSingle never rejects: a failed OCR call for a page yields a
\* document with empty pageContent, the requested page number and the failure
\* message as pdf.error.  In page-by-page mode every document depends on the
\* answer to its own page only, the loader's promise is never rejected once
\* OCR calls were issued, and the result has one document per page.
C13_PageFailureIsIsolated ==
  /\ Len(documents) = Len(ocrAnswers)
  /\ \A i \in 1..Len(documents) :
       /\ documents[i].pageNumber = ocrIssued[i]
       /\ ~ocrAnswers[i].ok
            => /\ documents[i].pageContent = ""
               /\ documents[i].error = ocrAnswers[i].message
       /\ (ocrAnswers[i].ok /\ ocrAnswers[i].page.present)
            => /\ documents[i].pageContent = ocrAnswers[i].page.markdown
               /\ documents[i].error = Undefined
  /\ ocrIssued # <<>> => loaded.kind # "rejected"
  /\ (lpc = "done" /\ ocrIssued # <<>>)
       => /\ Len(documents) = numpages
          /\ splitPages => loaded = Resolved(documents)

C13_Witness ==
  /\ lpc = "done"
  /\ splitPages
  /\ Len(loaded.docs) = 3
  /\ ocrAnswers[1].ok /\ ocrAnswers[1].page.present
  /\ ~ocrAnswers[2].ok
  /\ ocrAnswers[3].ok /\ ocrAnswers[3].page.present
  /\ loaded.docs[2].error = "HTTP 500"
  /\ loaded.docs[3].pageContent = "text B"

\* C14: in page-by-page mode the OCR calls are issued for pages 1, 2, ... in
\* this order, and the call for the next page is issued only after the
\* previous one has settled: at most one call is outstanding at any moment.
C14_OneOutstandingCall ==
  /\ \A i \in 1..Len(ocrIssued) : ocrIssued[i] = i
  /\ Len(ocrIssued) <= Len(images)
  /\ Len(ocrAnswers) <= Len(ocrIssued)
  /\ Len(ocrIssued) - Len(ocrAnswers) <= 1
  /\ Len(ocrIssued) > Len(ocrAnswers) <=> lpc = "awaitOcr"

C14_Witness ==
  /\ lpc = "awaitOcr"
  /\ Len(ocrIssued) = 3
  /\ Len(ocrAnswers) = 2

\* C15: when processBatch is given exactly one page and the processSingle it
\* delegates to rejects with message m, processBatch rejects with the message
\* "Batch job failed: m".
C15_SinglePageFailureIsPrefixed ==
  (pc = "done" /\ Len(pages) = 1 /\ outcome.kind = "rejected")
    => outcome.message \in {"Batch job failed: " \o m : m \in SpyCauses}

\* C16: when the local extraction of the PDF metadata fails, the load does not
\* abort for that reason: the PDF is still submitted to OCR, and the documents
\* returned carry none of the pdf fields extracted locally.  Stated for both
\* loaders: the one that rasterizes (pdfParse) and the direct one (parsePDF).
C16_MetadataFailureDoesNotAbort ==
  /\ (lpc = "done" /\ Has(lcalls, "pdfParse") /\ ~pdf.present)
       => /\ loaded.kind = "resolved"
          /\ Has(lcalls, "ocr.process")
          /\ \A i \in 1..Len(loaded.docs) : ~loaded.docs[i].pdf.present
  /\ (dpc = "done" /\ metaError # Undefined)
       => /\ Has(dcalls, "ocr.process document_url")
          /\ dloaded.kind = "rejected" => dloaded.message # metaError
          /\ \A i \in 1..Len(dloaded.docs) : ~dloaded.docs[i].pdf.present

\* C17: a PDF loaded without forced image conversion never reaches the page
\* rasterizer, is submitted to the OCR transport exactly once as a document
\* payload, and one document is built per page of the OCR response.
C17_DirectSubmission ==
  /\ (lpc = "done" /\ ~forceImageConversion /\ pdf.present)
       => /\ ~Has(lcalls, "convertPdfToImage")
          /\ Count(lcalls, "ocr.process") = 1
  /\ (dpc = "done" /\ dFile = "pdf")
       => /\ ~Has(dcalls, "convertPdfToImage")
          /\ Count(dcalls, "ocr.process document_url") = 1
          /\ (dloaded.kind = "resolved" /\ dSplitPages)
               => Len(dloaded.docs) = Len(response.pages)

\* the text a page contributes: its markdown, or "" when the call for the page
\* failed or the page has no markdown
C18_Text(ok, page) ==
  IF ok /\ page.present /\ page.markdown # Undefined THEN page.markdown ELSE ""

RECURSIVE C18_JoinFrom(_, _)
C18_JoinFrom(ts, k) ==
  IF k > Len(ts) THEN ""
  ELSE (IF k > 1 THEN "\n\n" ELSE "") \o ts[k] \o C18_JoinFrom(ts, k + 1)

C19_EmptyPagesIsMalformed ==
  (dpc = "done" /\ response.kind = "response"
     /\ (~response.hasPages \/ Len(response.pages) = 0))
    => /\ dloaded.kind = "rejected"
       /\ dloaded.message = "OCR processing failed: Malformed response structure"

\* C20: the error raised for a malformed response differs from the error
\* raised for every transport failure: when ocr.process itself rejected,
\* processImage and processPdf do not raise the malformed-response error.
C20_MalformedIsDistinguishable ==
  (dpc = "done" /\ response.kind = "rejected")
    => dloaded # Rejected("OCR processing failed: Malformed response structure")

\* C21: when the remote OCR call of processImage or processPdf fails with
\* message m, the operation rejects with exactly "OCR processing failed: m"
\* and returns no document, not even for a part of the file.
C21_TransportFailureIsWrapped ==
  (dpc = "done" /\ response.kind = "rejected")
    => /\ dloaded.kind = "rejected"
       /\ dloaded.message = "OCR processing failed: " \o response.message
       /\ dloaded.docs = <<>>

C21_Witness ==
  /\ dpc = "done"
  /\ response.kind = "rejected"
  /\ response.message = "OCR failed"
  /\ dloaded.message = "OCR processing failed: OCR failed"


\* C22: when the re-encoding of a TIFF input fails, processImage still submits
\* the original bytes under the MIME type image/tiff and does not reject
\* because of the failed conversion.
C22_TiffFallback ==
  (dpc = "done" /\ Has(dcalls, "sharp") /\ imageBuffer = "original")
    => /\ submitted = [type |-> "image_url", mime |-> "image/tiff",
                       bytes |-> "original"]
       /\ Has(dcalls, "ocr.process image_url")

\* C23: for a buffer that starts with 49 49 2A 00 or 4D 4D 00 2A, once the
\* re-encoding has succeeded the payload submitted is the JPEG re-encoding
\* under image/jpeg, never the original TIFF bytes.
C23_TiffIsReencoded ==
  (/\ buffer \in {<<73, 73, 42, 0>>, <<77, 77, 0, 42>>}
   /\ Has(dcalls, "ocr.process image_url"))
    => /\ submitted = [type |-> "image_url", mime |-> "image/jpeg",
                       bytes |-> "jpeg of original"]
       /\ Count(dcalls, "ocr.process image_url") = 1
       /\ Has(dcalls, "sharp")

C23_Witness ==
  /\ dpc = "done"
  /\ buffer = <<77, 77, 0, 42>>
  /\ submitted.mime = "image/jpeg"
  /\ submitted.bytes = "jpeg of original"
  /\ dloaded.kind = "resolved"

\* the MIME type of each supported signature
C24_Expected(buf) ==
  CASE buf = <<137, 80, 78, 71>> -> "image/png"
    [] buf = <<255, 216, 255, 224>> -> "image/jpeg"
    [] buf = <<82, 73, 70, 70>> -> "image/webp"
    [] buf = <<73, 73, 42, 0>> -> "image/tiff"
    [] buf = <<77, 77, 0, 42>> -> "image/tiff"

\* C24: a buffer that starts with the PNG, JPEG, WebP, TIFF-LE or TIFF-BE
\* signature is classified as that format, whatever extension the file path
\* in metadata.source carries.
C24_DetectionByBytesOnly ==
  (/\ dpc \in {"sharp", "processImage"}
   /\ ~Has(dcalls, "sharp")
   /\ buffer \in {<<137, 80, 78, 71>>, <<255, 216, 255, 224>>,
                  <<82, 73, 70, 70>>, <<73, 73, 42, 0>>, <<77, 77, 0, 42>>})
    => mimeType = C24_Expected(buffer)

C24_Witness ==
  /\ dpc = "processImage"
  /\ source = "photo.png"
  /\ buffer = <<82, 73, 70, 70>>
  /\ mimeType = "image/webp"


\* the collaborators of the direct loader: OCR transport, metadata extractor
\* and image converter
C25_DirectCollaborators ==
  {"ocr.process image_url", "ocr.process document_url", "parsePDF", "sharp"}

\* the messages of the unsupported-file-type error for the two allow-lists
C25_Messages ==
  {"Unsupported file type. Supported types: .jpg, .jpeg, .png, .webp, .tiff, .bmp, .gif, .pdf",
   "Unsupported file type. Supported types: .png, .xyz"}

\* the step parse takes, in either loader, on a source whose lower-cased
\* extension is not in the allow-list
C25_ParseStep ==
  /\ (/\ lpc = "parse" /\ lpc' # "parse"
      /\ lsource # ""
      /\ ~Includes(lAllowed, ToLowerCase(ExtName(lsource))))
       => /\ lpc' = "done"
          /\ loaded'.kind = "rejected"
          /\ loaded'.message \in C25_Messages
          /\ lcalls' = <<>>
  /\ (/\ dpc = "parse" /\ dpc' # "parse"
      /\ source # ""
      /\ ~Includes(dAllowed, ToLowerCase(ExtName(source))))
       => /\ dpc' = "done"
          /\ dloaded'.kind = "rejected"
          /\ dloaded'.message \in C25_Messages
          /\ \A i \in DOMAIN dcalls' : dcalls'[i] \notin C25_DirectCollaborators

\* C25: parse on a source whose lower-cased extension is not in the configured
\* allow-list ends the invocation with the unsupported-file-type rejection,
\* and no call to the OCR transport, the rasterizer or the PDF metadata
\* extractor has been made.  Stated for both loaders.
C25_UnsupportedTypeRejectsEarly == [][C25_ParseStep]_vars

C25_Witness ==
  /\ dpc = "done"
  /\ source = "doc.pdf"
  /\ dAllowed = <<".png", ".xyz">>
  /\ dloaded.message = "Unsupported file type. Supported types: .png, .xyz"
  /\ dcalls = <<>>

C27_MissingKeyFailsFast ==
  (cpc = "done" /\ config.apiKey \in {Undefined, ""})
    => /\ thrown = "Mistral API key is required"
       /\ clientKey = NoClient


\* C28: for the same page, base metadata and page number, processSingle and
\* the batch path of processBatch build the same Document, and for the same
\* error message they build the same error Document.
C28_SingleAndBatchAgree ==
  /\ npc = "processSingle"
       => nDoc = BatchPageDocument(rawPage, nPageNumber, nBase)
  /\ npc = "processBatch"
       => nDoc = SinglePageDocument(rawPage, nPageNumber, nBase)
  /\ npc = "processSingle catch"
       => nDoc = BatchErrorDocument(nError, nPageNumber, nBase)
  /\ npc = "processBatch error"
       => nDoc = SingleErrorDocument(nError, nPageNumber, nBase)

C28_Witness ==
  /\ npc = "processBatch"
  /\ nPageNumber = 2
  /\ rawPage.markdown = "text A"
  /\ Len(rawPage.images.list) = 2
  /\ Len(nDoc.images) = 2
  /\ nDoc.images[1].bottom_right_x = 0
  /\ nDoc.images[2].bottom_right_x = 12
  /\ nDoc.pdf = BasePdf(2)

\* C29: the text of a Document built from an OCR page is a string: the
\* page's markdown when it has one, the empty string when it has none, in
\* processSingle, processBatch, processImage and processPdf alike.
C29_TextIsAlwaysAString ==
  npc \in {"processSingle", "processBatch", "processImage", "processPdf"}
    => nDoc.pageContent =
         (IF rawPage.markdown = Undefined THEN "" ELSE rawPage.markdown)

\* a coordinate as the claim describes it
C30_Expected(v) == IF v \in {NullCoord, NoCoord} THEN 0 ELSE v

\* C30: in every Document built from an OCR page each image has four numeric
\* coordinates, the service's value or 0 when it sent null or nothing, and
\* its image_base64 is the payload or undefined, never null.
C30_CoordinatesAreNumbers ==
  npc \in {"processSingle", "processBatch", "processImage", "processPdf"}
    => /\ Len(nDoc.images) = Len(rawPage.images.list)
       /\ \A i \in 1..Len(nDoc.images) :
            /\ nDoc.images[i].top_left_x
                 = C30_Expected(rawPage.images.list[i].topLeftX)
            /\ nDoc.images[i].top_left_y
                 = C30_Expected(rawPage.images.list[i].topLeftY)
            /\ nDoc.images[i].bottom_right_x
                 = C30_Expected(rawPage.images.list[i].bottomRightX)
            /\ nDoc.images[i].bottom_right_y
                 = C30_Expected(rawPage.images.list[i].bottomRightY)
            /\ {nDoc.images[i].top_left_x, nDoc.images[i].top_left_y,
                nDoc.images[i].bottom_right_x, nDoc.images[i].bottom_right_y}
                 \subseteq Nat
            /\ nDoc.images[i].image_base64 # NullValue
            /\ rawPage.images.list[i].imageBase64 \notin {NullValue, Undefined}
                 => nDoc.images[i].image_base64
                      = rawPage.images.list[i].imageBase64

C30_Witness ==
  /\ npc = "processImage"
  /\ Len(nDoc.images) = 1
  /\ rawPage.images.list[1].topLeftX = NullCoord
  /\ rawPage.images.list[1].topLeftY = NoCoord
  /\ rawPage.images.list[1].bottomRightX = 12
  /\ rawPage.images.list[1].imageBase64 = NullValue
  /\ nDoc.images[1].top_left_x = 0
  /\ nDoc.images[1].top_left_y = 0
  /\ nDoc.images[1].bottom_right_x = 12
  /\ nDoc.images[1].image_base64 = Undefined


\* C32: processBatch with exactly one page makes exactly one single-page OCR
\* call and nothing else (no temporary file or directory, no upload, no job,
\* no status query, no delay, no download) and returns exactly one document.
C32_OnePageIsNotBatched ==
  (pc = "done" /\ Len(pages) = 1)
    => /\ calls = <<"ocr.process">>
       /\ fsOps = <<>>
       /\ tempDir = "none" /\ tempFile = "none"
       /\ jobStatus = "none" /\ attempt = 0 /\ slept = 0
       /\ outcome.kind = "resolved"
       /\ Len(outcome.docs) = 1

C32_Witness ==
  /\ pc = "done"
  /\ Len(pages) = 1
  /\ calls = <<"ocr.process">>
  /\ outcome.kind = "resolved"
  /\ outcome.docs[1].pageContent = "text A"

\* C33: processBatch with no page resolves with the empty document sequence
\* and has done nothing: no file-system call, no remote call, no warning.
C33_EmptyInputIsANoOp ==
  (pc = "done" /\ Len(pages) = 0)
    => /\ outcome = Resolved(<<>>)
       /\ calls = <<>>
       /\ fsOps = <<>>
       /\ warnings = <<>>
       /\ tempDir = "none" /\ tempFile = "none"
       /\ jobStatus = "none" /\ attempt = 0 /\ slept = 0

C33_Witness ==
  /\ pc = "done"
  /\ pages = <<>>
  /\ outcome.kind = "resolved"
  /\ outcome.docs = <<>>


\* C37: once a status query has answered Success without an output file
\* reference, no further query, delay or download follows; the temporary
\* file's removal is attempted, and then processBatch rejects with "Batch
\* processing failed: Job completed but no output file was found".
C37_SuccessWithoutOutputFile ==
  (job.status = "Success" /\ job.outputFile \in {Undefined, ""})
    => /\ pc \in {"finally", "catch", "done"}
       /\ calls[Len(calls)] = "batch.jobs.get"
       /\ ~Has(calls, "files.download")
       /\ Count(calls, "batch.jobs.get") = attempt + 1
       /\ slept = attempt * 5000
       /\ pc \in {"catch", "done"} => Has(fsOps, "rm")
       /\ pc = "done"
            => outcome = Rejected("Batch processing failed: Job completed but no output file was found")

C37_Witness ==
  /\ pc = "done"
  /\ job.status = "Success"
  /\ job.outputFile = Undefined
  /\ attempt = 2
  /\ tempFile = "removed"
  /\ outcome.message
       = "Batch processing failed: Job completed but no output file was found"


\* a record of the output file that has no truthy error and no first page
C38_Malformed(r) == ~Truthy(r.error) /\ ~r.page.present

\* C38: after a successful job, when a downloaded line is not valid JSON or a
\* record has neither an error nor a first response page, processBatch
\* rejects with "Batch processing failed: ..." and returns no document, not
\* even for the well-formed records.
C38_MalformedOutputFailsTheBatch ==
  (/\ pc = "done"
   /\ Has(calls, "files.download")
   /\ \/ inner = Throw("Failed to parse batch results: Unexpected token } in JSON")
      \/ \E i \in 1..Len(results) : C38_Malformed(results[i]))
    => /\ outcome.kind = "rejected"
       /\ outcome.docs = <<>>
       /\ outcome.message \in
            {"Batch processing failed: Failed to parse batch results: Unexpected token } in JSON",
             "Batch processing failed: Cannot read properties of undefined"}

C38_Witness ==
  /\ pc = "done"
  /\ Len(results) = 2
  /\ results[1] = [error |-> Undefined, page |-> OcrPage("text A")]
  /\ C38_Malformed(results[2])
  /\ outcome.kind = "rejected"

\* C39: cleanupTempFiles tries to remove the directory only after the file
\* was removed: when rm fails there is no rmdir call, file and directory
\* stay, and exactly one warning is logged.
C39_RmdirOnlyAfterRm ==
  /\ Has(fsOps, "rmdir") => tempFile = "removed"
  /\ (Has(fsOps, "rm") /\ tempFile = "exists")
       => /\ ~Has(fsOps, "rmdir")
          /\ fsOps[Len(fsOps)] = "rm"
          /\ tempDir = "exists"
          /\ Len(warnings) = 1
  /\ Count(fsOps, "rm") <= 1 /\ Count(fsOps, "rmdir") <= 1

C39_Witness ==
  /\ pc = "done"
  /\ Has(fsOps, "rm")
  /\ tempFile = "exists"
  /\ tempDir = "exists"
  /\ warnings = <<"Failed to cleanup temp files: EACCES: permission denied">>


\* the line of the output file that answers the request with custom_id id
C35_LineOf(id) == CHOOSE r \in {kLines[i] : i \in 1..Len(kLines)} : r.custom_id = id

\* C35: for N submitted pages processBatch builds N documents, and the
\* document at position i holds the result of the request with custom_id
\* "page_i" (its text, or its error), in whatever order the service wrote
\* the lines.
C35_CorrelatedByCustomId ==
  kpc = "mapped"
    => /\ kDocs.kind = "return"
       /\ Len(kDocs.docs) = kPages
       /\ \A i \in 1..kPages :
            /\ kDocs.docs[i].pageNumber = i
            /\ kDocs.docs[i].pageContent
                 = (IF C35_LineOf(CustomId(i)).error = Undefined
                      THEN C35_LineOf(CustomId(i)).page.markdown ELSE "")
            /\ kDocs.docs[i].error = C35_LineOf(CustomId(i)).error


\* the positions at which an invocation has written its interchange file and
\* has not yet removed it
C31_NeedsItsFile == {"readFile", "upload", "job", "rm"}

\* the positions at which an invocation holds the directory it created
C31_HoldsItsDir == {"writeFile", "readFile", "upload", "job", "rm", "rmdir"}

\* C31: however the awaits of two processBatch invocations interleave, each
\* works only in the directory it created itself: its interchange file is
\* there, with its own requests, from its writeFile until its own rm; what it
\* reads back is what it wrote; no directory is shared, and no file on disk
\* was written by another invocation than the one that holds its path.
C31_InvocationsAreIsolated ==
  /\ \A p \in Invocations :
       /\ bpc[p] \in C31_HoldsItsDir
            => {r \in fsDirs : r.name = bDir[p]}
                 = {[name |-> bDir[p], creator |-> p]}
       /\ bpc[p] \in C31_NeedsItsFile
            => FilesAt(bPath[p])
                 = {[dir |-> bDir[p], name |-> bPath[p].name, content |-> p]}
       /\ bRead[p] \in {"none", p}
  /\ \A p, q \in Invocations :
       (p # q /\ bpc[p] \in C31_HoldsItsDir /\ bpc[q] \in C31_HoldsItsDir)
         => bDir[p] # bDir[q]
  /\ \A f \in fsFiles : bPath[f.content] = [dir |-> f.dir, name |-> f.name]

\* one invocation has finished its cleanup while the other, which got the
\* same file name, still has its file
C31_Witness ==
  /\ bpc["A"] = "done" /\ bpc["B"] = "job"
  /\ bPath["A"].name = bPath["B"].name
  /\ bRead["A"] = "A"
  /\ fsDirs = {[name |-> bDir["B"], creator |-> "B"]}
  /\ fsFiles = {[dir |-> bDir["B"], name |-> bPath["B"].name, content |-> "B"]}


\* the four-byte magic numbers: JPEG starts ff d8 ff, WebP is a RIFF
\* container, TIFF is II*\0 or MM\0*; a byte past the end reads as -1
C36_Leading(buf) == <<ByteAt(buf, 0), ByteAt(buf, 1), ByteAt(buf, 2), ByteAt(buf, 3)>>

C36_HasMagic(buf, mime) ==
  CASE mime = "image/jpeg" ->
         /\ Len(buf) >= 4
         /\ ByteAt(buf, 0) = 255 /\ ByteAt(buf, 1) = 216 /\ ByteAt(buf, 2) = 255
    [] mime = "image/webp" -> C36_Leading(buf) = <<82, 73, 70, 70>>
    [] mime = "image/tiff" ->
         C36_Leading(buf) \in {<<73, 73, 42, 0>>, <<77, 77, 0, 42>>}
    [] mime = "image/png" -> C36_Leading(buf) = <<137, 80, 78, 71>>
    [] OTHER -> FALSE

\* C36: once processImage has looked at the leading bytes, the type it
\* settled on is JPEG, WebP or TIFF only when the first four bytes carry that
\* format's magic number, and a buffer that carries none of the known magic
\* numbers has not been given any image type.
C36_ClassifiedByFourByteMagic ==
  (dpc \in {"sharp", "processImage"} /\ ~Has(dcalls, "sharp"))
    => C36_HasMagic(buffer, mimeType)


\* what a page answer leaves in the merged text: its markdown, or nothing
\* when the call was rejected
C40_Contribution(answer) ==
  IF answer.ok /\ answer.page.present /\ answer.page.markdown # Undefined
  THEN answer.page.markdown ELSE ""

\* C40: with forceImageConversion = true and splitPages = false, when the OCR
\* call of some page was rejected, the load still resolves with one merged
\* document; that document has no pdf.error, its content is the "\n\n" join
\* in which the failed page stands as an empty string, and its metadata is
\* the base metadata, so the error message is in none of its fields.
C40_MergedDocumentDropsPageErrors ==
  (/\ lpc = "done" /\ IsPdfFile(lsource)
   /\ forceImageConversion /\ ~splitPages
   /\ Has(lcalls, "ocr.process")
   /\ \E i \in 1..Len(ocrAnswers) : ~ocrAnswers[i].ok)
    => /\ loaded.kind = "resolved"
       /\ Len(loaded.docs) = 1
       /\ loaded.docs[1].error = Undefined
       /\ loaded.docs[1].pdf = pdf
       /\ loaded.docs[1].pageNumber = 0
       /\ loaded.docs[1].pageContent =
            C18_JoinFrom([i \in 1..Len(ocrAnswers) |->
                            C40_Contribution(ocrAnswers[i])], 1)
       /\ \A i \in 1..Len(ocrAnswers) :
            ~ocrAnswers[i].ok
              => /\ documents[i].error = ocrAnswers[i].message
                 /\ loaded.docs[1].pageContent # ocrAnswers[i].message
                 /\ loaded.message # ocrAnswers[i].message

\* the first of two pages failed, the second was read
C40_Witness ==
  /\ lpc = "done"
  /\ forceImageConversion /\ ~splitPages
  /\ numpages = 2
  /\ Len(ocrAnswers) = 2
  /\ ~ocrAnswers[1].ok /\ ocrAnswers[2].ok
  /\ documents[1].error = ocrAnswers[1].message
  /\ loaded.kind = "resolved"
  /\ Len(loaded.docs) = 1
  /\ loaded.docs[1].error = Undefined
  /\ loaded.docs[1].pageContent = "\n\ntext A"


\* the number of OCR transport calls of either loader
C34_OcrCalls(cs) ==
  Cardinality({i \in DOMAIN cs :
                 cs[i] \in {"ocr.process", "ocr.process image_url",
                            "ocr.process document_url"}})

\* C34: a finished load of a file of a recognized non-PDF image type has made
\* exactly one OCR transport call, with an image payload, has called neither
\* the local PDF metadata extractor nor the rasterizer, and, when it
\* resolved, returns exactly one document.
C34_ImageIsOneCallOneDocument ==
  /\ (lpc = "done" /\ Dispatch(lsource, lAllowed).to = "image")
       => /\ C34_OcrCalls(lcalls) = 1
          /\ ~Has(lcalls, "pdfParse") /\ ~Has(lcalls, "convertPdfToImage")
          /\ loaded.kind = "resolved" => Len(loaded.docs) = 1
  /\ (dpc = "done" /\ dFile = "image")
       => /\ C34_OcrCalls(dcalls) = 1
          /\ Has(dcalls, "ocr.process image_url")
          /\ submitted.type = "image_url"
          /\ ~Has(dcalls, "parsePDF")
          /\ dloaded.kind = "resolved" => Len(dloaded.docs) = 1

====
